---- MODULE Spec2Model ----
(***************************************************************************)
(* StudGram bot: the registration wizard, the callback dispatch, the       *)
(* reference directory with its TTL cache and the commit of a registration *)
(* into users_db, as a state machine over the three shared maps of         *)
(* config.py (users_db, pending_registrations, active_chats).              *)
(*                                                                         *)
(* Texts, labels and payloads are sequences of one-character strings, so   *)
(* that strip / split / replace / startswith are computed and not assumed. *)
(* A python dict is a function whose DOMAIN is the set of keys present.    *)
(* Dicts and User objects live in heaps (regs, urecs) and are referred to  *)
(* by slot number, because a handler keeps the reference it read before an *)
(* await while the map entry may be replaced by another handler.           *)
(*                                                                         *)
(* A handler runs atomically from one await on an external call to the     *)
(* next (asyncio): the awaits that suspend are the upstream fetch of a     *)
(* reference list on a cache miss, the external registration sequence, the *)
(* student lookup and the approval-status query.  Outbound bot.send_message*)
(* calls are recorded in the handler's list of replies, in order.          *)
(***************************************************************************)
EXTENDS Integers, Sequences, FiniteSets, TLC

VARIABLES users_db, urecs, pending_registrations, regs, active_chats,
          cache, now, tasks, last

vars == <<users_db, urecs, pending_registrations, regs, active_chats,
          cache, now, tasks, last>>

(***************************************************************************)
(* Bounds of the model.                                                    *)
(***************************************************************************)
\* handlers that may be suspended on an external call at the same time
MaxTasks == 2
\* most tokens of a text of the full-name specification
MaxTokens == 4
\* most months the calendar is turned away from the month of now
MaxMonth == 1

Users == {1, 2}
Chats == {1, 2}

(***************************************************************************)
(* Character strings.                                                      *)
(***************************************************************************)
\* the characters str.isalpha() accepts; every other character of the model
\* (a digit, "_", " ") is not a letter
Letters == {"a", "b", "A", "B", "C", "F", "H", "G", "K", "X"}

IsSpace(ch) == ch = " "

RECURSIVE LStrip(_)
LStrip(s) == IF s # <<>> /\ IsSpace(Head(s)) THEN LStrip(Tail(s)) ELSE s

RECURSIVE RStrip(_)
RStrip(s) ==
    IF s # <<>> /\ IsSpace(s[Len(s)]) THEN RStrip(SubSeq(s, 1, Len(s) - 1)) ELSE s

\* str.strip()
Strip(s) == RStrip(LStrip(s))

\* str.split(): the maximal runs of non-whitespace characters, in order
RECURSIVE SplitWs(_, _)
SplitWs(s, cur) ==
    IF s = <<>> THEN (IF cur = <<>> THEN <<>> ELSE <<cur>>)
    ELSE IF IsSpace(Head(s))
         THEN (IF cur = <<>> THEN <<>> ELSE <<cur>>) \o SplitWs(Tail(s), <<>>)
         ELSE SplitWs(Tail(s), Append(cur, Head(s)))

\* str.isalpha(): non-empty and letters only
IsAlpha(tok) == tok # <<>> /\ \A i \in 1..Len(tok) : tok[i] \in Letters

\* str.startswith(p)
StartsWith(s, p) == Len(s) >= Len(p) /\ SubSeq(s, 1, Len(p)) = p

\* str.replace(a, b) for single characters
Replace(s, a, b) == [i \in 1..Len(s) |-> IF s[i] = a THEN b ELSE s[i]]

\* str.split(sep, maxsplit) for a single-character separator; maxsplit < 0
\* splits at every separator
RECURSIVE SplitSep(_, _, _, _)
SplitSep(s, sep, maxsplit, cur) ==
    IF s = <<>> THEN <<cur>>
    ELSE IF Head(s) = sep /\ maxsplit # 0
         THEN <<cur>> \o SplitSep(Tail(s), sep, maxsplit - 1, <<>>)
         ELSE SplitSep(Tail(s), sep, maxsplit, Append(cur, Head(s)))

(***************************************************************************)
(* UniversityService.validate_full_name: the tag of the first check that   *)
(* fails, or "ok".                                                         *)
(***************************************************************************)
ValidateTooFewFlipped(full_name) ==
    LET name_parts == SplitWs(Strip(full_name), <<>>)
    IN  IF Len(name_parts) < 1 THEN "too_few"
        ELSE IF Len(name_parts) > 3 THEN "too_many"
        ELSE IF \E i \in 1..Len(name_parts) : ~IsAlpha(name_parts[i]) THEN "not_alpha"
        ELSE IF Len(full_name) < 5 THEN "too_short"
        ELSE "ok"

ValidateNoLength(full_name) ==
    LET name_parts == SplitWs(Strip(full_name), <<>>)
    IN  IF Len(name_parts) < 2 THEN "too_few"
        ELSE IF Len(name_parts) > 3 THEN "too_many"
        ELSE IF \E i \in 1..Len(name_parts) : ~IsAlpha(name_parts[i]) THEN "not_alpha"
        ELSE "ok"

validate_full_name(full_name) ==
    LET name_parts == SplitWs(Strip(full_name), <<>>)
    IN  IF Len(name_parts) < 2 THEN "too_few"
        ELSE IF Len(name_parts) > 3 THEN "too_many"
        ELSE IF \E i \in 1..Len(name_parts) : ~IsAlpha(name_parts[i]) THEN "not_alpha"
        ELSE IF Len(full_name) < 5 THEN "too_short"
        ELSE "ok"

(***************************************************************************)
(* The upstream catalog (the external system's reference data) and the     *)
(* reference directory over the TTL cache.                                 *)
(***************************************************************************)
Entry(id, title, abbreviation) ==
    [id |-> id, title |-> title, abbreviation |-> abbreviation]

Institutions == << Entry(1, <<"A", " ", "B">>, <<"A", "B">>), Entry(2, <<"C">>, <<>>) >>

FacultiesOf(institution_id) ==
    IF institution_id = 1 THEN << Entry(1, <<"F">>, <<>>) >>
    ELSE IF institution_id = 2 THEN << Entry(2, <<"H">>, <<>>) >>
    ELSE <<>>

GroupsOf(institution_id, faculty_id) ==
    IF institution_id = 1 /\ faculty_id = 1 THEN << Entry(1, <<"G">>, <<>>) >>
    ELSE IF institution_id = 2 /\ faculty_id = 2 THEN << Entry(2, <<"K">>, <<>>) >>
    ELSE <<>>

InstIds == {1, 2}
FacIds == {1, 2}

\* the cache keys "universities", "faculties_{i}", "groups_{i}_{f}"
KeyUniversities == <<"universities">>
KeyFaculties(institution_id) == <<"faculties", institution_id>>
KeyGroups(institution_id, faculty_id) == <<"groups", institution_id, faculty_id>>

CacheKeys == {KeyUniversities} \cup {KeyFaculties(i) : i \in InstIds}
             \cup {KeyGroups(i, f) : i \in InstIds, f \in FacIds}

\* what the REST collaborator answers for a key; a failed request is the
\* empty list ("request(...) or []")
Upstream(key, ok) ==
    IF ~ok THEN <<>>
    ELSE IF key = KeyUniversities THEN Institutions
    ELSE IF key[1] = "faculties" THEN FacultiesOf(key[2])
    ELSE GroupsOf(key[2], key[3])

ttl_seconds == 300

NoEntry == [value |-> <<>>, ts |-> -1]

\* CacheFreshForever: an entry is served whatever its age
CacheFreshForever(c, key, t) == c[key] # NoEntry

\* CacheFreshInclusive: an entry aged exactly the ttl is still served
CacheFreshInclusive(c, key, t) == c[key] # NoEntry /\ t - c[key].ts <= ttl_seconds

\* Cache.get: the entry is served while now - timestamp < ttl
CacheFresh(c, key, t) == c[key] # NoEntry /\ t - c[key].ts < ttl_seconds

\* CacheGetSweeps: a read deletes every expired entry, not only its own
CacheGetSweeps(c, key, t) ==
    LET swept == [k \in DOMAIN c |-> IF CacheFresh(c, k, t) THEN c[k] ELSE NoEntry]
    IN  IF CacheFresh(c, key, t)
        THEN [hit |-> TRUE, value |-> c[key].value, cache |-> swept]
        ELSE [hit |-> FALSE, value |-> <<>>, cache |-> swept]

\* Cache.get: [hit, value, cache]; an expired entry is deleted by the read
CacheGet(c, key, t) ==
    IF CacheFresh(c, key, t)
    THEN [hit |-> TRUE, value |-> c[key].value, cache |-> c]
    ELSE [hit |-> FALSE, value |-> <<>>, cache |-> [c EXCEPT ![key] = NoEntry]]

\* CacheSetKeepsTimestamp: a write over an entry keeps the first timestamp
CacheSetKeepsTimestamp(c, key, value, t) ==
    [c EXCEPT ![key] = [value |-> value, ts |-> IF @ = NoEntry THEN t ELSE @.ts]]

\* Cache.set
CacheSet(c, key, value, t) == [c EXCEPT ![key] = [value |-> value, ts |-> t]]

\* Cache.clear
CacheClear(c) == [k \in DOMAIN c |-> NoEntry]

\* ResolveLast: the last entry that matches, not the first
ResolveLast(lst, name) ==
    LET hits == {i \in 1..Len(lst) :
                    lst[i].title = name \/ lst[i].abbreviation = name}
    IN  IF hits = {} THEN [found |-> FALSE, id |-> 0]
        ELSE [found |-> TRUE,
              id |-> lst[CHOOSE i \in hits : \A j \in hits : i >= j].id]

\* get_university_by_name / get_faculty_by_name / get_group_by_name over the
\* list already obtained: the first entry whose title or abbreviation is name
Resolve(lst, name) ==
    LET hits == {i \in 1..Len(lst) :
                    lst[i].title = name \/ lst[i].abbreviation = name}
    IN  IF hits = {} THEN [found |-> FALSE, id |-> 0]
        ELSE [found |-> TRUE,
              id |-> lst[CHOOSE i \in hits : \A j \in hits : i <= j].id]

(***************************************************************************)
(* Callback payloads: what the keyboards put on the buttons.               *)
(***************************************************************************)
Chars(u) == IF u = 1 THEN <<"1">> ELSE IF u = 2 THEN <<"2">> ELSE <<"0">>

PfxUniversity == <<"u", "n", "i", "v", "e", "r", "s", "i", "t", "y", "_">>
PfxFaculty == <<"f", "a", "c", "u", "l", "t", "y", "_">>
PfxGroup == <<"g", "r", "o", "u", "p", "_">>
PfxConfirm == <<"c", "o", "n", "f", "i", "r", "m", "_">>
PfxMenu == <<"m", "e", "n", "u", "_">>
PfxSchedule == <<"s", "c", "h", "e", "d", "u", "l", "e", "_">>
WordYes == <<"y", "e", "s">>
WordNo == <<"n", "o">>
PayloadRestart == <<"r", "e", "s", "t", "a", "r", "t", "_", "r", "e", "g", "i", "s",
                    "t", "r", "a", "t", "i", "o", "n">>
PayloadCalendarPrev == <<"c", "a", "l", "e", "n", "d", "a", "r", "_", "p", "r", "e", "v">>
PayloadCalendarNext == <<"c", "a", "l", "e", "n", "d", "a", "r", "_", "n", "e", "x", "t">>
PayloadCalendarToday == <<"c", "a", "l", "e", "n", "d", "a", "r", "_", "t", "o", "d", "a", "y">>
PayloadProfileRefresh == <<"p", "r", "o", "f", "i", "l", "e", "_", "r", "e", "f", "r", "e", "s", "h">>

\* send_university_selection / send_faculty_selection / send_group_selection:
\* f"{action}_{user_id}_{title.replace(' ', '_')}"
EncodeSelection(prefix, user_id, title) ==
    prefix \o Chars(user_id) \o <<"_">> \o Replace(title, " ", "_")

\* send_confirmation: f"confirm_{yes|no}_{user_id}"
EncodeConfirm(word, user_id) == PfxConfirm \o word \o <<"_">> \o Chars(user_id)

(***************************************************************************)
(* Objects: registration dicts (regs) and User objects (urecs), in slots.  *)
(* Slot 0 is "no object" (the key is absent from the map).                 *)
(***************************************************************************)
RegSlots == 1..(Cardinality(Users) + MaxTasks)
UserSlots == 1..(Cardinality(Users) + MaxTasks)
TaskIds == 1..MaxTasks

\* datetime.now().replace(day=1): months are counted from the month of now
ThisMonth == 0

FreeReg == [step |-> "free"]
FreeUser == [user_id |-> 0]

\* dict access
Has(d, k) == k \in DOMAIN d
Put(d, k, v) == (k :> v) @@ d
\* d.get(k) of a label: the empty label stands for None
GetLabel(d, k) == IF Has(d, k) THEN d[k] ELSE <<>>
\* d.get(k) of an id: 0 stands for None
GetId(d, k) == IF Has(d, k) THEN d[k] ELSE 0

\* the id the external system gives the student of a transport user id
SidOf(user_id) == user_id

NoCall == [full_name |-> <<>>, university |-> <<>>, faculty |-> <<>>, group |-> <<>>]

\* a handler (coroutine): where it is suspended and its local variables
Idle == [pc |-> "idle", kind |-> "", act |-> "", user |-> 0, chat |-> 0,
         arg |-> <<>>, reg |-> 0, usr |-> 0, key |-> <<>>, cont |-> "",
         call |-> NoCall, ok |-> FALSE, out |-> <<>>, handled |-> TRUE]

NewTask(kind, act, user, chat, arg) ==
    [Idle EXCEPT !.pc = "run", !.kind = kind, !.act = act, !.user = user,
                 !.chat = chat, !.arg = arg]

\* the handler that ended last: its action, its argument, its replies in
\* order and what it returned
NoLast == [act |-> "", arg |-> <<>>, out |-> <<>>, handled |-> TRUE]

\* The shared maps, the heaps, the cache and the running handler, as one
\* value that the handler code below transforms.
StateOf(i, t) ==
    [users_db |-> users_db, urecs |-> urecs, pending |-> pending_registrations,
     regs |-> regs, active_chats |-> active_chats, cache |-> cache, t |-> t,
     held_regs |-> {tasks[j].reg : j \in TaskIds \ {i}},
     held_users |-> {tasks[j].usr : j \in TaskIds \ {i}}]

\* bot.send_message: one outbound reply, named by its text
Say(S, tag) == [S EXCEPT !.t.out = Append(@, tag)]

Done(S, handled) == [S EXCEPT !.t.pc = "done", !.t.handled = handled]

\* handlers/callbacks.py handle_callback: the reply when the service
\* returned False, and the reply when it raised
CbReturn(S, handled) ==
    IF handled THEN Done(S, TRUE) ELSE Done(Say(S, "cb_not_handled"), FALSE)

\* CbRaisePropagates: the exception leaves the entry point, nothing is sent
CbRaisePropagates(S) == Done(S, FALSE)

CbRaise(S) == Done(Say(S, "cb_exception"), FALSE)

\* the end of a service call, back in the entry point that made it
Return(S, handled) ==
    IF S.t.kind = "callback" THEN CbReturn(S, handled) ELSE Done(S, handled)

Min(set) == CHOOSE x \in set : \A y \in set : x <= y

\* a slot no map entry (other than the one being replaced) and no handler holds
AllocReg(S, user_id) ==
    Min(RegSlots \ ({S.pending[u] : u \in Users \ {user_id}}
                    \cup S.held_regs \cup {S.t.reg}))

AllocUser(S, user_id) ==
    Min(UserSlots \ ({S.users_db[u] : u \in Users \ {user_id}}
                     \cup S.held_users \cup {S.t.usr}))

(***************************************************************************)
(* BotService: registration start and restart.                             *)
(***************************************************************************)
start_registration(S, chat_id, user_id) ==
    LET i == AllocReg(S, user_id)
    IN  Say([S EXCEPT !.regs[i] = [step |-> "full_name", chat_id |-> chat_id],
                      !.pending[user_id] = i,
                      !.active_chats[chat_id] = user_id],
            "welcome")

RestartKeepsFields(S, user_id, chat_id) ==
    LET r == S.pending[user_id]
    IN  Say(Say([S EXCEPT !.regs[r] = Put(Put(@, "step", "full_name"), "chat_id", chat_id),
                          !.active_chats[chat_id] = user_id],
                "welcome"),
            "restart_prompt")

restart_registration(S, user_id, chat_id) ==
    Say(start_registration([S EXCEPT !.pending[user_id] = 0], chat_id, user_id),
        "restart_prompt")

force_restart_registration(S, chat_id, user_id) ==
    start_registration([S EXCEPT !.users_db[user_id] = 0, !.pending[user_id] = 0],
                       chat_id, user_id)

(***************************************************************************)
(* Approval status and the main menu.                                      *)
(***************************************************************************)
\* ApplyStatusSticky: the resync never takes an approval back
ApplyStatusSticky(u, is_approved) ==
    IF is_approved = "none" \/ u.application_approved THEN u
    ELSE [u EXCEPT !.application_approved = (is_approved = "yes"),
                   !.status = IF is_approved = "yes" THEN "approved" ELSE "pending"]

\* what check_application_status returns once the query has answered
StatusUpdated(is_approved) == is_approved # "none"

\* check_application_status once the remote query has answered
\* ("none": no answer or no approval value)
ApplyStatus(u, is_approved) ==
    IF is_approved = "none" THEN u
    ELSE [u EXCEPT !.application_approved = (is_approved = "yes"),
                   !.status = IF is_approved = "yes" THEN "approved" ELSE "pending"]

MainMenu(S) ==
    LET u == S.urecs[S.t.usr]
    IN  Return(Say(S, IF u.application_approved /\ u.status = "approved"
                      THEN "menu_full" ELSE "menu_limited"),
               TRUE)

send_main_menu(S) ==
    LET u == S.urecs[S.t.usr]
    IN  IF ~u.application_approved /\ u.system_id # 0
        THEN [S EXCEPT !.t.pc = "status", !.t.cont = "menu"]
        ELSE MainMenu(S)

(***************************************************************************)
(* Reference lookups.  get_universities / get_faculties / get_groups read  *)
(* the cache; on a miss the handler is suspended on the upstream fetch and *)
(* goes on in Continue when the list has arrived.                          *)
(***************************************************************************)
RECURSIVE Continue(_, _, _)

\* LookupSkipsEmpty: a cached empty list counts as a miss
LookupSkipsEmpty(S, key, cont) ==
    LET g == CacheGet(S.cache, key, now)
    IN  IF g.hit /\ g.value # <<>>
        THEN Continue([S EXCEPT !.cache = g.cache], cont, g.value)
        ELSE [S EXCEPT !.cache = g.cache, !.t.pc = "fetch", !.t.key = key,
                       !.t.cont = cont]

Lookup(S, key, cont) ==
    LET g == CacheGet(S.cache, key, now)
    IN  IF g.hit THEN Continue([S EXCEPT !.cache = g.cache], cont, g.value)
        ELSE [S EXCEPT !.cache = g.cache, !.t.pc = "fetch", !.t.key = key,
                       !.t.cont = cont]

\* send_university_selection, once get_university_names has the list
UniKeyboard(S, institutions) ==
    IF institutions = <<>> THEN Return(Say(S, "uk_no_universities"), TRUE)
    ELSE Return(Say(S, "uk_keyboard"), TRUE)

\* send_faculty_selection, once get_faculties has the list
FacKeyboard(S, faculties) ==
    IF faculties = <<>> THEN Return(Say(S, "fk_no_faculties"), TRUE)
    ELSE Return(Say(S, "fk_keyboard"), TRUE)

\* send_faculty_selection, once get_university_by_name has the list
FacKeyboardUni(S, institutions) ==
    LET institution == Resolve(institutions, S.t.arg)
    IN  IF ~institution.found THEN Return(Say(S, "fk_no_university"), TRUE)
        ELSE Lookup(S, KeyFaculties(institution.id), "fac_keyboard")

\* send_group_selection, once get_group_names has the list
GrpKeyboard(S, groups) ==
    IF groups = <<>> THEN Return(Say(S, "gk_no_groups"), TRUE)
    ELSE Return(Say(S, "gk_keyboard"), TRUE)

send_group_selection(S) ==
    IF S.pending[S.t.user] = 0 THEN Return(Say(S, "gk_no_registration"), TRUE)
    ELSE LET reg_data == S.regs[S.pending[S.t.user]]
             institution_id == GetId(reg_data, "institution_id")
             faculty_id == GetId(reg_data, "faculty_id")
         IN  IF institution_id = 0 \/ faculty_id = 0
             THEN Return(Say(S, "gk_no_ids"), TRUE)
             ELSE Lookup(S, KeyGroups(institution_id, faculty_id), "grp_keyboard")

\* send_confirmation: MessageTemplates has no get_registration_confirmation,
\* so the call raises before anything is sent
send_confirmation(S) == CbRaise(S)

\* handle_university_selection, once get_university_by_name has the list
UniSelect(S, institutions) ==
    LET institution == Resolve(institutions, S.t.arg)
    IN  IF ~institution.found THEN CbReturn(Say(S, "uni_not_found"), FALSE)
        ELSE IF S.pending[S.t.user] = 0 THEN CbRaise(S)
        ELSE LET r == S.pending[S.t.user]
                 S1 == [S EXCEPT !.regs[r] =
                            Put(Put(Put(@, "university", S.t.arg),
                                    "institution_id", institution.id),
                                "step", "faculty")]
             IN  Lookup(Say(S1, "uni_selected"), KeyUniversities, "fac_keyboard_uni")

FacSelectNoResolve(S, faculties) ==
    LET r == S.t.reg
        S1 == [S EXCEPT !.regs[r] =
                   Put(Put(Put(@, "faculty", S.t.arg), "faculty_id", 1),
                       "step", "group")]
    IN  send_group_selection(Say(S1, "fac_selected"))

\* handle_faculty_selection, once get_faculty_by_name has the list
FacSelect(S, faculties) ==
    LET faculty_data == Resolve(faculties, S.t.arg)
    IN  IF ~faculty_data.found THEN CbReturn(Say(S, "fac_not_found"), FALSE)
        ELSE LET r == S.t.reg
                 S1 == [S EXCEPT !.regs[r] =
                            Put(Put(Put(@, "faculty", S.t.arg),
                                    "faculty_id", faculty_data.id),
                                "step", "group")]
             IN  send_group_selection(Say(S1, "fac_selected"))

\* handle_group_selection, once get_group_by_name has the list
GrpSelect(S, groups) ==
    LET group_data == Resolve(groups, S.t.arg)
    IN  IF ~group_data.found THEN CbReturn(Say(S, "grp_not_found"), FALSE)
        ELSE LET r == S.t.reg
                 S1 == [S EXCEPT !.regs[r] =
                            Put(Put(Put(@, "group", S.t.arg),
                                    "group_id", group_data.id),
                                "step", "confirmation")]
             IN  send_confirmation(S1)

Continue(S, cont, lst) ==
    CASE cont = "uni_keyboard" -> UniKeyboard(S, lst)
      [] cont = "uni_select" -> UniSelect(S, lst)
      [] cont = "fac_keyboard_uni" -> FacKeyboardUni(S, lst)
      [] cont = "fac_keyboard" -> FacKeyboard(S, lst)
      [] cont = "fac_select" -> FacSelect(S, lst)
      [] cont = "grp_keyboard" -> GrpKeyboard(S, lst)
      [] cont = "grp_select" -> GrpSelect(S, lst)

(***************************************************************************)
(* The wizard's selection handlers, up to their first await.               *)
(***************************************************************************)
handle_university_selection(S) ==
    IF S.pending[S.t.user] = 0 THEN CbReturn(S, FALSE)
    ELSE Lookup(S, KeyUniversities, "uni_select")

FacultySelectionNoParentCheck(S) ==
    IF S.pending[S.t.user] = 0 THEN CbReturn(S, FALSE)
    ELSE LET r == S.pending[S.t.user]
             institution_id == GetId(S.regs[r], "institution_id")
         IN  Lookup([S EXCEPT !.t.reg = r],
                    KeyFaculties(IF institution_id = 0 THEN 1 ELSE institution_id),
                    "fac_select")

handle_faculty_selection(S) ==
    IF S.pending[S.t.user] = 0 THEN CbReturn(S, FALSE)
    ELSE LET r == S.pending[S.t.user]
             institution_id == GetId(S.regs[r], "institution_id")
         IN  IF institution_id = 0 THEN CbReturn(S, FALSE)
             ELSE Lookup([S EXCEPT !.t.reg = r], KeyFaculties(institution_id),
                         "fac_select")

handle_group_selection(S) ==
    IF S.pending[S.t.user] = 0 THEN CbReturn(S, FALSE)
    ELSE LET r == S.pending[S.t.user]
             institution_id == GetId(S.regs[r], "institution_id")
             faculty_id == GetId(S.regs[r], "faculty_id")
         IN  IF institution_id = 0 \/ faculty_id = 0 THEN CbReturn(S, FALSE)
             ELSE Lookup([S EXCEPT !.t.reg = r],
                         KeyGroups(institution_id, faculty_id), "grp_select")

(***************************************************************************)
(* The commit: complete_registration and register_user_in_system.          *)
(***************************************************************************)
\* complete_registration up to the await of register_user_in_system; the
\* arguments of the call are read from reg_data before the await
complete_registration(S) ==
    LET reg_data == S.regs[S.t.reg]
    IN  IF ~Has(reg_data, "full_name") \/ ~Has(reg_data, "university")
        THEN Return(Say(S, "commit_error"), TRUE)
        ELSE [S EXCEPT !.t.pc = "register",
                       !.t.call = [full_name |-> reg_data.full_name,
                                   university |-> reg_data.university,
                                   faculty |-> GetLabel(reg_data, "faculty"),
                                   group |-> GetLabel(reg_data, "group")]]

\* a reference list inside the registration sequence: the cached list, or the
\* list fetched upstream and stored
DirGet(c, key, up_ok) ==
    LET g == CacheGet(c, key, now)
    IN  IF g.hit THEN [value |-> g.value, cache |-> g.cache]
        ELSE [value |-> Upstream(key, up_ok),
              cache |-> CacheSet(g.cache, key, Upstream(key, up_ok), now)]

\* register_user_in_system, from its first external call to its return.
\* fail names the first external call that fails ("none": all succeed); up is
\* the set of reference lists ("u", "f", "g") the upstream serves.
register_user_in_system(S, fail, up) ==
    IF fail = "api" THEN [S EXCEPT !.t.ok = FALSE, !.t.pc = "lookup_sid"]
    ELSE
    LET call == S.t.call
        du == DirGet(S.cache, KeyUniversities, "u" \in up)
        institution == Resolve(du.value, call.university)
    IN  IF ~institution.found
        THEN [S EXCEPT !.cache = du.cache, !.t.ok = FALSE, !.t.pc = "lookup_sid"]
        ELSE IF fail = "link_inst"
        THEN [S EXCEPT !.cache = du.cache, !.t.ok = FALSE, !.t.pc = "lookup_sid"]
        ELSE
        LET df == IF call.faculty # <<>>
                  THEN DirGet(du.cache, KeyFaculties(institution.id), "f" \in up)
                  ELSE [value |-> <<>>, cache |-> du.cache]
            faculty == Resolve(df.value, call.faculty)
            faculty_id == IF call.faculty # <<>> /\ faculty.found THEN faculty.id ELSE 0
            faculty_success ==
                IF call.faculty = <<>> THEN TRUE
                ELSE IF faculty.found THEN fail # "link_fac" ELSE FALSE
            dg == IF call.group # <<>> /\ faculty_id # 0
                  THEN DirGet(df.cache, KeyGroups(institution.id, faculty_id), "g" \in up)
                  ELSE [value |-> <<>>, cache |-> df.cache]
            group == Resolve(dg.value, call.group)
            group_success ==
                IF call.group = <<>> \/ faculty_id = 0 THEN TRUE
                ELSE IF group.found THEN fail # "link_grp" ELSE FALSE
            slot == S.users_db[S.t.user]
        IN  [S EXCEPT !.cache = dg.cache,
                      !.urecs = IF slot # 0
                                THEN [@ EXCEPT ![slot].system_id = SidOf(S.t.user)]
                                ELSE @,
                      !.t.ok = faculty_success /\ group_success,
                      !.t.pc = "lookup_sid"]

RegistrationFailures == {"none", "api", "link_inst", "link_fac", "link_grp"}

NewUser(user_id, reg_data, system_id) ==
    [user_id |-> user_id, full_name |-> reg_data.full_name,
     university |-> reg_data.university, group |-> reg_data.group,
     faculty |-> GetLabel(reg_data, "faculty"), status |-> "pending",
     system_id |-> system_id, application_approved |-> FALSE,
     in_chat_mode |-> FALSE, calendar_state |-> "viewing",
     selected_month |-> ThisMonth]

CommitReply(ok, system_id) ==
    IF ok THEN (IF system_id # 0 THEN "registered_synced" ELSE "registered")
    ELSE "registered_unsynced"

CommitKeepsPending(S, system_id) ==
    LET reg_data == S.regs[S.t.reg]
        slot == AllocUser(S, S.t.user)
        S1 == [S EXCEPT !.urecs[slot] = NewUser(S.t.user, reg_data, system_id),
                        !.users_db[S.t.user] = slot,
                        !.t.usr = slot]
    IN  IF ~Has(reg_data, "group") THEN Return(Say(S, "commit_error"), TRUE)
        ELSE send_main_menu(Say(S1, CommitReply(S.t.ok, system_id)))

CommitDropsOnFailure(S, system_id) ==
    LET reg_data == S.regs[S.t.reg]
        slot == AllocUser(S, S.t.user)
        S1 == [S EXCEPT !.urecs[slot] = NewUser(S.t.user, reg_data, system_id),
                        !.users_db[S.t.user] = slot,
                        !.pending[S.t.user] = 0,
                        !.t.usr = slot]
    IN  IF ~Has(reg_data, "group") \/ ~S.t.ok
        THEN Return(Say(S, "commit_error"), TRUE)
        ELSE send_main_menu(Say(S1, CommitReply(S.t.ok, system_id)))

CommitApproved(S, system_id) ==
    LET reg_data == S.regs[S.t.reg]
        slot == AllocUser(S, S.t.user)
        S1 == [S EXCEPT !.urecs[slot] =
                            [NewUser(S.t.user, reg_data, system_id)
                                EXCEPT !.status = "approved",
                                       !.application_approved = TRUE],
                        !.users_db[S.t.user] = slot,
                        !.pending[S.t.user] = 0,
                        !.t.usr = slot]
    IN  IF ~Has(reg_data, "group") THEN Return(Say(S, "commit_error"), TRUE)
        ELSE send_main_menu(Say(S1, CommitReply(S.t.ok, system_id)))

\* complete_registration from the answer of get_student_by_max_id on: the
\* User is built from reg_data as it is now, stored, the pending registration
\* deleted, the result reported and the main menu sent
Commit(S, system_id) ==
    LET reg_data == S.regs[S.t.reg]
        slot == AllocUser(S, S.t.user)
        S1 == [S EXCEPT !.urecs[slot] = NewUser(S.t.user, reg_data, system_id),
                        !.users_db[S.t.user] = slot,
                        !.pending[S.t.user] = 0,
                        !.t.usr = slot]
    IN  IF ~Has(reg_data, "group") THEN Return(Say(S, "commit_error"), TRUE)
        ELSE send_main_menu(Say(S1, CommitReply(S.t.ok, system_id)))

handle_confirmation(S, confirmation) ==
    IF S.pending[S.t.user] = 0 THEN CbReturn(S, FALSE)
    ELSE LET S1 == [S EXCEPT !.t.reg = S.pending[S.t.user]]
         IN  IF confirmation = WordYes THEN complete_registration(S1)
             ELSE IF confirmation = WordNo
             THEN CbReturn(restart_registration(S1, S.t.user, S.t.chat), TRUE)
             ELSE CbReturn(S1, FALSE)

(***************************************************************************)
(* The access gate (_check_access) and the actions of the menu.            *)
(***************************************************************************)
\* the payloads of the menu buttons (keys of menu_actions)
PayloadMenuSchedule ==
    <<"m", "e", "n", "u", "_", "s", "c", "h", "e",
      "d", "u", "l", "e">>
PayloadMenuAssignments ==
    <<"m", "e", "n", "u", "_", "a", "s", "s", "i",
      "g", "n", "m", "e", "n", "t", "s">>
PayloadMenuChatbot ==
    <<"m", "e", "n", "u", "_", "c", "h", "a", "t",
      "b", "o", "t">>
PayloadMenuProfile ==
    <<"m", "e", "n", "u", "_", "p", "r", "o", "f",
      "i", "l", "e">>
PayloadMenuStatus == <<"m", "e", "n", "u", "_", "s", "t", "a", "t", "u", "s">>
PayloadMenuInfo == <<"m", "e", "n", "u", "_", "i", "n", "f", "o">>
PayloadMenuBack == <<"m", "e", "n", "u", "_", "b", "a", "c", "k">>
PayloadMenuCalendar ==
    <<"m", "e", "n", "u", "_", "c", "a", "l", "e",
      "n", "d", "a", "r">>
PayloadScheduleToday ==
    <<"s", "c", "h", "e", "d", "u", "l", "e", "_",
      "t", "o", "d", "a", "y">>
PayloadScheduleTomorrow ==
    <<"s", "c", "h", "e", "d", "u", "l", "e", "_",
      "t", "o", "m", "o", "r", "r", "o", "w">>

\* the command words of message_handler, letter for letter in Latin script
CmdSchedule == <<"r", "a", "s", "p", "i", "s", "a", "n", "i", "e">>
CmdCalendar == <<"k", "a", "l", "e", "n", "d", "a", "r">>
CmdAssignments == <<"z", "a", "d", "a", "n", "i", "y", "a">>
CmdHomework == <<"d", "z">>
CmdProfile == <<"p", "r", "o", "f", "i", "l">>
CmdPrevMonth == <<"p", "r", "e", "d", " ", "m", "e", "s", "y", "a", "c">>
CmdNextMonth == <<"s", "l", "e", "d", " ", "m", "e", "s", "y", "a", "c">>
CmdToday == <<"s", "e", "g", "o", "d", "n", "y", "a">>
CmdBack == <<"n", "a", "z", "a", "d">>
CmdMenu == <<"m", "e", "n", "u">>
CmdMainMenu == <<"g", "l", "a", "v", "n", "o", "e", " ", "m", "e", "n", "u">>
CmdSlashMenu == <<"/", "m", "e", "n", "u">>
CmdChat == <<"c", "h", "a", "t">>

\* str.lower() on the characters of the model
LowerOf(ch) ==
    CASE ch = "A" -> "a" [] ch = "B" -> "b" [] ch = "C" -> "c" [] ch = "F" -> "f"
      [] ch = "H" -> "h" [] ch = "G" -> "g" [] ch = "K" -> "k" [] ch = "X" -> "x"
      [] OTHER -> ch

Lower(s) == [i \in 1..Len(s) |-> LowerOf(s[i])]

\* menu_actions.get(callback_data): the action, "" when there is no such key
MenuActionOf(callback_data) ==
    CASE callback_data = PayloadMenuSchedule -> "menu_schedule"
      [] callback_data = PayloadMenuAssignments -> "menu_assignments"
      [] callback_data = PayloadMenuChatbot -> "menu_chatbot"
      [] callback_data = PayloadMenuProfile -> "menu_profile"
      [] callback_data = PayloadMenuStatus -> "menu_status"
      [] callback_data = <<"s", "u", "b", "j", "e", "c", "t", "_">> -> "subject_"
      [] callback_data = PayloadProfileRefresh -> "profile_refresh"
      [] callback_data = PayloadMenuInfo -> "menu_info"
      [] callback_data = PayloadMenuBack -> "menu_back"
      [] callback_data = PayloadMenuCalendar -> "menu_calendar"
      [] callback_data = PayloadCalendarPrev -> "calendar_prev"
      [] callback_data = PayloadCalendarNext -> "calendar_next"
      [] callback_data = PayloadCalendarToday -> "calendar_today"
      [] callback_data = PayloadScheduleToday -> "schedule_today"
      [] callback_data = PayloadScheduleTomorrow -> "schedule_tomorrow"
      [] callback_data = PayloadRestart -> "restart"
      [] OTHER -> ""

\* the actions whose entry of menu_actions has required_access True
RequiredAccess ==
    {"menu_schedule", "menu_assignments", "menu_chatbot", "subject_", "menu_info",
     "menu_calendar", "calendar_prev", "calendar_next", "calendar_today",
     "schedule_today", "schedule_tomorrow"}

CalendarActions == {"menu_calendar", "calendar_prev", "calendar_next", "calendar_today"}

\* _handle_calendar_navigation
calendar_navigation(selected_month, act) ==
    CASE act = "calendar_prev" -> selected_month - 1
      [] act = "calendar_next" -> selected_month + 1
      [] act = "calendar_today" -> ThisMonth
      [] OTHER -> selected_month

RECURSIVE AfterAccess(_, _, _)

\* CheckAccessNoShortCut: the access check without its fast path
CheckAccessNoShortCut(S, cont) ==
    LET user == S.urecs[S.t.usr]
    IN  IF user.system_id = 0 THEN AfterAccess(S, cont, FALSE)
        ELSE [S EXCEPT !.t.pc = "access", !.t.cont = cont]

\* _check_access up to its await: no system_id is a denial, an approved user
\* passes without a query, otherwise the approval-status query is awaited
check_access(S, cont) ==
    LET user == S.urecs[S.t.usr]
    IN  IF user.system_id = 0 THEN AfterAccess(S, cont, FALSE)
        ELSE IF user.application_approved /\ user.status = "approved"
        THEN AfterAccess(S, cont, TRUE)
        ELSE [S EXCEPT !.t.pc = "access", !.t.cont = cont]

\* AccessAnswerFailOpen: a failed query is taken for an approval
AccessAnswerFailOpen(user, is_approved) ==
    IF is_approved = "no" THEN [user EXCEPT !.application_approved = FALSE]
    ELSE [user EXCEPT !.application_approved = TRUE, !.status = "approved"]

\* _check_access once the query has answered: what it writes to the user
\* ("none": the query failed or the answer has no approval value)
AccessAnswer(user, is_approved) ==
    IF is_approved = "none" THEN user
    ELSE IF is_approved = "yes"
    THEN [user EXCEPT !.application_approved = TRUE, !.status = "approved"]
    ELSE [user EXCEPT !.application_approved = FALSE]

\* _send_pending_application_message, and the handler returns
Denied(S) == Return(Say(S, "access_restricted"), TRUE)

\* send_calendar after its access check
SendCalendar(S) ==
    LET u == S.t.usr
        current_month == calendar_navigation(S.urecs[u].selected_month, S.t.act)
    IN  Return(Say([S EXCEPT !.urecs[u].selected_month = current_month,
                             !.urecs[u].calendar_state = "selecting_date"],
                   "calendar"),
               TRUE)

\* _show_schedule_for_date after its access check (the schedule is the demo
\* schedule of the service, no request is made)
ShowSchedule(S) ==
    Return(Say([S EXCEPT !.urecs[S.t.usr].calendar_state = "viewing"], "schedule"),
           TRUE)

\* send_schedule_menu, start_chatbot, send_calendar, show_schedule_for_today /
\* _tomorrow, send_assignments, send_subject_details after their access check
Granted(S) ==
    LET u == S.t.usr
    IN  CASE S.t.act = "menu_schedule" -> Return(Say(S, "schedule_menu"), TRUE)
          [] S.t.act = "menu_chatbot" ->
                Return(Say([S EXCEPT !.urecs[u].in_chat_mode = TRUE], "chat_welcome"),
                       TRUE)
          [] S.t.act \in CalendarActions -> SendCalendar(S)
          [] S.t.act \in {"schedule_today", "schedule_tomorrow"} ->
                check_access(S, "date")
          [] OTHER -> [S EXCEPT !.t.pc = "content"]

\* AiMessageStaysInChat: a denied user stays in chat mode
AiMessageStaysInChat(S, has_access) ==
    IF ~has_access THEN Done(Say(S, "access_restricted"), TRUE)
    ELSE IF S.t.arg = <<>> THEN Done(Say(S, "ai_empty"), TRUE)
    ELSE [Say(S, "ai_wait") EXCEPT !.t.pc = "content"]

\* handle_ai_message after its access check
AiMessage(S, has_access) ==
    IF ~has_access
    THEN Done(Say([S EXCEPT !.urecs[S.t.usr].in_chat_mode = FALSE],
                  "access_restricted"), TRUE)
    ELSE IF S.t.arg = <<>> THEN Done(Say(S, "ai_empty"), TRUE)
    ELSE [Say(S, "ai_wait") EXCEPT !.t.pc = "content"]

\* the request a feature waits for has answered: get_student_subjects with
\* the contents of the subjects, get_subject_content, AIService.send_text
ContentReply(S, ok) ==
    CASE S.t.act = "menu_assignments" ->
            Return(Say(S, IF ok THEN "assignments" ELSE "no_subjects"), TRUE)
      [] S.t.act = "ai" -> Done(Say(S, IF ok THEN "ai_answer" ELSE "ai_error"), TRUE)
      [] OTHER -> Return(Say(S, "subject_failed"), TRUE)

\* send_application_status after check_application_status
AppStatusReply(S) ==
    Return(Say(S, IF S.urecs[S.t.usr].application_approved
                  THEN "status_approved" ELSE "status_pending"),
           TRUE)

send_application_status(S) ==
    IF S.urecs[S.t.usr].system_id = 0 THEN AppStatusReply(S)
    ELSE [S EXCEPT !.t.pc = "status", !.t.cont = "app_status"]

\* send_profile from get_student_data on
ProfileData(S) ==
    IF S.urecs[S.t.usr].system_id # 0 THEN [S EXCEPT !.t.pc = "profile"]
    ELSE Return(Say(S, "profile"), TRUE)

send_profile(S) ==
    LET user == S.urecs[S.t.usr]
    IN  IF user.system_id # 0 /\ ~user.application_approved
        THEN [S EXCEPT !.t.pc = "status", !.t.cont = "profile"]
        ELSE ProfileData(S)

\* _handle_student_not_found, run by _start_reregistration and again by
\* send_profile: the user's record is deleted, each run deletes one entry of
\* active_chats that names the user (with two chats: every such entry), and
\* the run of send_profile sends the notice
handle_student_not_found(S) ==
    LET user_id == S.urecs[S.t.usr].user_id
    IN  Return(Say([S EXCEPT !.users_db[user_id] = 0,
                             !.active_chats = [c \in Chats |->
                                                  IF @[c] = user_id THEN 0 ELSE @[c]]],
                   "student_not_found"),
               TRUE)

\* the answers of the student's data requests of send_profile
ProfileReply(S, found) ==
    IF found THEN Return(Say(S, "profile"), TRUE) ELSE handle_student_not_found(S)

\* where a handler goes on when check_application_status has answered
StatusCont(S) ==
    CASE S.t.cont = "app_status" -> AppStatusReply(S)
      [] S.t.cont = "profile" -> ProfileData(S)
      [] OTHER -> MainMenu(S)

exit_chat_mode(S) ==
    send_main_menu(Say([S EXCEPT !.urecs[S.t.usr].in_chat_mode = FALSE], "chat_exit"))

\* the try block of handle_menu_callback: the handler of the action.  The
\* handler of menu_info calls send_university_info, which BotService does not
\* define: the AttributeError is caught, reported and False is returned.
RunAction(S) ==
    CASE S.t.act = "menu_info" -> CbReturn(Say(S, "menu_action_failed"), FALSE)
      [] S.t.act \in {"menu_profile", "profile_refresh"} -> send_profile(S)
      [] S.t.act = "menu_status" -> send_application_status(S)
      [] S.t.act = "menu_back" ->
            IF S.urecs[S.t.usr].in_chat_mode THEN exit_chat_mode(S)
            ELSE send_main_menu(S)
      [] OTHER -> check_access(S, "handler")

\* where a handler goes on when _check_access has returned: in
\* handle_menu_callback, in the action's handler, in _show_schedule_for_date
\* or in handle_ai_message
AfterAccess(S, cont, has_access) ==
    CASE cont = "dispatch" ->
            IF has_access THEN RunAction(S)
            ELSE CbReturn(Say(S, "access_restricted"), TRUE)
      [] cont = "handler" -> IF has_access THEN Granted(S) ELSE Denied(S)
      [] cont = "date" -> IF has_access THEN ShowSchedule(S) ELSE Denied(S)
      [] OTHER -> AiMessage(S, has_access)

\* the dispatch of handle_menu_callback for the resolved user
MenuDispatch(S) ==
    IF S.t.act = "" THEN CbReturn(S, FALSE)
    ELSE IF S.t.act \in RequiredAccess THEN check_access(S, "dispatch")
    ELSE RunAction(S)

(***************************************************************************)
(* Callback dispatch: BotService.handle_callback / handle_menu_callback.   *)
(***************************************************************************)
IsMenuPayload(callback_data) ==
    \/ StartsWith(callback_data, PfxMenu)
    \/ StartsWith(callback_data, PfxSchedule)
    \/ callback_data \in {PayloadCalendarPrev, PayloadCalendarNext,
                          PayloadCalendarToday, PayloadProfileRefresh,
                          PayloadRestart}

\* the users whose pending registration was started in the chat
PendingInChat(S, chat_id) ==
    {u \in Users : S.pending[u] # 0 /\ S.regs[S.pending[u]].chat_id = chat_id}

Registered(S) == {u \in Users : S.users_db[u] # 0}

\* The dicts are scanned in insertion order, which the model does not keep:
\* scan_p / scan_u is the entry the scan meets first (0 when there is none).
ScanChoices(set) == IF set = {} THEN {0} ELSE set

\* MenuCallbackDropsPending: the profile-not-found exit also deletes the
\* pending registration of the user
MenuCallbackDropsPending(S, callback_data, chat_id, scan_p, scan_u) ==
    LET in_chats == S.active_chats[chat_id] # 0
        user_id == IF in_chats THEN S.active_chats[chat_id]
                   ELSE IF scan_p # 0 THEN scan_p
                   ELSE scan_u
        S1 == IF in_chats \/ user_id = 0 THEN S
              ELSE [S EXCEPT !.active_chats[chat_id] = user_id]
        S2 == [S1 EXCEPT !.t.user = user_id, !.t.usr = IF user_id = 0 THEN 0
                                                       ELSE S1.users_db[user_id]]
    IN  IF user_id = 0 THEN CbReturn(Say(S2, "menu_user_not_found"), FALSE)
        ELSE IF S2.users_db[user_id] = 0 /\ callback_data # PayloadRestart
        THEN CbReturn(Say([S2 EXCEPT !.pending[user_id] = 0],
                           "menu_profile_not_found"), FALSE)
        ELSE IF callback_data = PayloadRestart
        THEN CbReturn(force_restart_registration([S2 EXCEPT !.t.act = "restart"],
                                                 chat_id, user_id), TRUE)
        ELSE MenuDispatch([S2 EXCEPT !.t.act = MenuActionOf(callback_data)])

\* handle_menu_callback
handle_menu_callback(S, callback_data, chat_id, scan_p, scan_u) ==
    LET in_chats == S.active_chats[chat_id] # 0
        user_id == IF in_chats THEN S.active_chats[chat_id]
                   ELSE IF scan_p # 0 THEN scan_p
                   ELSE scan_u
        S1 == IF in_chats \/ user_id = 0 THEN S
              ELSE [S EXCEPT !.active_chats[chat_id] = user_id]
        S2 == [S1 EXCEPT !.t.user = user_id, !.t.usr = IF user_id = 0 THEN 0
                                                       ELSE S1.users_db[user_id]]
    IN  IF user_id = 0 THEN CbReturn(Say(S2, "menu_user_not_found"), FALSE)
        ELSE IF S2.users_db[user_id] = 0 /\ callback_data # PayloadRestart
        THEN CbReturn(Say(S2, "menu_profile_not_found"), FALSE)
        ELSE IF callback_data = PayloadRestart
        THEN CbReturn(force_restart_registration([S2 EXCEPT !.t.act = "restart"],
                                                 chat_id, user_id), TRUE)
        ELSE MenuDispatch([S2 EXCEPT !.t.act = MenuActionOf(callback_data)])

\* WizardDispatchUnchecked: the fields of the payload are read without the
\* test of their number
WizardDispatchUnchecked(S, callback_data) ==
    IF StartsWith(callback_data, PfxUniversity)
    THEN LET parts == SplitSep(callback_data, "_", 2, <<>>)
         IN  IF Len(parts) >= 3
             THEN handle_university_selection(
                      [S EXCEPT !.t.act = "university",
                                !.t.arg = Replace(parts[3], "_", " ")])
             ELSE CbRaise(S)
    ELSE IF StartsWith(callback_data, PfxFaculty)
    THEN LET parts == SplitSep(callback_data, "_", 2, <<>>)
         IN  IF Len(parts) >= 3
             THEN handle_faculty_selection(
                      [S EXCEPT !.t.act = "faculty",
                                !.t.arg = Replace(parts[3], "_", " ")])
             ELSE CbRaise(S)
    ELSE IF StartsWith(callback_data, PfxGroup)
    THEN LET parts == SplitSep(callback_data, "_", 2, <<>>)
         IN  IF Len(parts) >= 3
             THEN handle_group_selection(
                      [S EXCEPT !.t.act = "group",
                                !.t.arg = Replace(parts[3], "_", " ")])
             ELSE CbRaise(S)
    ELSE IF StartsWith(callback_data, PfxConfirm)
    THEN LET parts == SplitSep(callback_data, "_", -1, <<>>)
         IN  IF Len(parts) >= 3
             THEN handle_confirmation([S EXCEPT !.t.act = "confirm",
                                                !.t.arg = parts[2]], parts[2])
             ELSE CbRaise(S)
    ELSE CbReturn(S, FALSE)

\* WizardDispatchSplitsAll: the payload is split at every separator
WizardDispatchSplitsAll(S, callback_data) ==
    IF StartsWith(callback_data, PfxUniversity)
    THEN LET parts == SplitSep(callback_data, "_", -1, <<>>)
         IN  IF Len(parts) >= 3
             THEN handle_university_selection(
                      [S EXCEPT !.t.act = "university",
                                !.t.arg = Replace(parts[3], "_", " ")])
             ELSE CbReturn(S, FALSE)
    ELSE IF StartsWith(callback_data, PfxFaculty)
    THEN LET parts == SplitSep(callback_data, "_", -1, <<>>)
         IN  IF Len(parts) >= 3
             THEN handle_faculty_selection(
                      [S EXCEPT !.t.act = "faculty",
                                !.t.arg = Replace(parts[3], "_", " ")])
             ELSE CbReturn(S, FALSE)
    ELSE IF StartsWith(callback_data, PfxGroup)
    THEN LET parts == SplitSep(callback_data, "_", -1, <<>>)
         IN  IF Len(parts) >= 3
             THEN handle_group_selection(
                      [S EXCEPT !.t.act = "group",
                                !.t.arg = Replace(parts[3], "_", " ")])
             ELSE CbReturn(S, FALSE)
    ELSE IF StartsWith(callback_data, PfxConfirm)
    THEN LET parts == SplitSep(callback_data, "_", -1, <<>>)
         IN  IF Len(parts) >= 3
             THEN handle_confirmation([S EXCEPT !.t.act = "confirm",
                                                !.t.arg = parts[2]], parts[2])
             ELSE CbReturn(S, FALSE)
    ELSE CbReturn(S, FALSE)

\* the wizard part of handle_callback, for the resolved user_id
WizardDispatch(S, callback_data) ==
    IF StartsWith(callback_data, PfxUniversity)
    THEN LET parts == SplitSep(callback_data, "_", 2, <<>>)
         IN  IF Len(parts) >= 3
             THEN handle_university_selection(
                      [S EXCEPT !.t.act = "university",
                                !.t.arg = Replace(parts[3], "_", " ")])
             ELSE CbReturn(S, FALSE)
    ELSE IF StartsWith(callback_data, PfxFaculty)
    THEN LET parts == SplitSep(callback_data, "_", 2, <<>>)
         IN  IF Len(parts) >= 3
             THEN handle_faculty_selection(
                      [S EXCEPT !.t.act = "faculty",
                                !.t.arg = Replace(parts[3], "_", " ")])
             ELSE CbReturn(S, FALSE)
    ELSE IF StartsWith(callback_data, PfxGroup)
    THEN LET parts == SplitSep(callback_data, "_", 2, <<>>)
         IN  IF Len(parts) >= 3
             THEN handle_group_selection(
                      [S EXCEPT !.t.act = "group",
                                !.t.arg = Replace(parts[3], "_", " ")])
             ELSE CbReturn(S, FALSE)
    ELSE IF StartsWith(callback_data, PfxConfirm)
    THEN LET parts == SplitSep(callback_data, "_", -1, <<>>)
         IN  IF Len(parts) >= 3
             THEN handle_confirmation([S EXCEPT !.t.act = "confirm",
                                                !.t.arg = parts[2]], parts[2])
             ELSE CbReturn(S, FALSE)
    ELSE CbReturn(S, FALSE)

\* handle_callback
handle_callback(S, callback_data, chat_id, scan_p, scan_u) ==
    IF IsMenuPayload(callback_data)
    THEN handle_menu_callback(S, callback_data, chat_id, scan_p, scan_u)
    ELSE LET in_chats == S.active_chats[chat_id] # 0
             user_id == IF in_chats THEN S.active_chats[chat_id] ELSE scan_p
             S1 == IF in_chats \/ user_id = 0 THEN S
                   ELSE [S EXCEPT !.active_chats[chat_id] = user_id]
         IN  IF user_id = 0
             THEN handle_menu_callback(S1, callback_data, chat_id, scan_p, scan_u)
             ELSE WizardDispatch([S1 EXCEPT !.t.user = user_id], callback_data)

(***************************************************************************)
(* main.py: message_handler, _handle_registration, on_bot_started.         *)
(***************************************************************************)
\* _handle_registration
handle_registration(S, text) ==
    LET r == S.pending[S.t.user]
        reg_data == S.regs[r]
        verdict == validate_full_name(text)
    IN  IF reg_data.step = "full_name"
        THEN IF verdict # "ok" THEN Done(Say(S, verdict), TRUE)
             ELSE Lookup([S EXCEPT !.regs[r] =
                             Put(Put(reg_data, "full_name", text), "step", "university")],
                         KeyUniversities, "uni_keyboard")
        ELSE Done(S, TRUE)

\* command_mapping of message_handler, searched in the order of the dict (of
\* each command the synonyms the model writes): the key of command_handlers,
\* "" when no synonym matches
MatchedCommand(text) ==
    LET t == Lower(text)
    IN  IF t = CmdSchedule THEN "menu_schedule"
        ELSE IF t = CmdCalendar THEN "menu_calendar"
        ELSE IF t \in {CmdAssignments, CmdHomework} THEN "menu_assignments"
        ELSE IF t = CmdProfile THEN "menu_profile"
        ELSE IF t = CmdPrevMonth THEN "calendar_prev"
        ELSE IF t = CmdNextMonth THEN "calendar_next"
        ELSE IF t = CmdToday THEN "calendar_today"
        ELSE IF t \in {CmdBack, CmdMenu} THEN "back"
        ELSE IF t = CmdMainMenu THEN "menu"
        ELSE IF t = CmdChat THEN "chat"
        ELSE ""

\* CommandHandler.handle_command: command_handlers has no handler for the
\* chat command and for a text that matched nothing
handle_command(S, command) ==
    IF command \in {"menu_schedule", "menu_assignments"} \cup CalendarActions
    THEN check_access([S EXCEPT !.t.act = command], "handler")
    ELSE IF command = "menu_profile" THEN send_profile([S EXCEPT !.t.act = command])
    ELSE IF command = "back"
    THEN send_main_menu([S EXCEPT !.t.act = command,
                                  !.urecs[S.t.usr].calendar_state = "viewing"])
    ELSE IF command = "menu" THEN send_main_menu([S EXCEPT !.t.act = command])
    ELSE send_main_menu(Say(S, "unknown_command"))

\* handle_date_selection for a text that strptime('%d.%m.%Y') does not parse
\* (no text of the model is a date): the format is explained and False is
\* returned
handle_date_selection(S, text) == Say(S, "bad_date")

\* message_handler
message_handler(S, user_id, chat_id, raw) ==
    LET text == Strip(raw)
        S1 == [S EXCEPT !.active_chats[chat_id] = user_id,
                        !.t.usr = S.users_db[user_id]]
        registered == S1.users_db[user_id] # 0
    IN  IF /\ registered
           /\ S1.urecs[S1.t.usr].in_chat_mode
           /\ Lower(text) \notin {CmdMenu, CmdBack, CmdSlashMenu}
        THEN check_access([S1 EXCEPT !.t.act = "ai"], "ai")
        ELSE IF S1.pending[user_id] # 0 THEN handle_registration(S1, text)
        ELSE IF ~registered
        THEN Done(start_registration(S1, chat_id, user_id), TRUE)
        ELSE LET S2 == IF S1.urecs[S1.t.usr].calendar_state = "selecting_date"
                       THEN handle_date_selection(S1, text)
                       ELSE S1
             IN  handle_command(S2, MatchedCommand(text))

\* on_bot_started
on_bot_started(S, user_id, chat_id) ==
    LET S1 == [S EXCEPT !.active_chats[chat_id] = user_id]
    IN  IF S1.users_db[user_id] = 0
        THEN Done(start_registration(S1, chat_id, user_id), TRUE)
        ELSE send_main_menu([S1 EXCEPT !.t.usr = S1.users_db[user_id]])

(***************************************************************************)
(* The state machine.                                                      *)
(***************************************************************************)
\* raw texts of the messages and payloads of the button presses
NameGood == <<"a", "b", " ", "a", "b">>
NameShort == <<"a", " ", "b">>

Titles(lst) == {lst[i].title : i \in 1..Len(lst)}

UniversityPayloads(titles) == {EncodeSelection(PfxUniversity, 1, t) : t \in titles}
FacultyPayloads(titles) == {EncodeSelection(PfxFaculty, 1, t) : t \in titles}
GroupPayloads(titles) == {EncodeSelection(PfxGroup, 1, t) : t \in titles}
ConfirmPayloads == {EncodeConfirm(WordYes, 1), EncodeConfirm(WordNo, 1)}

\* the user and the chat the events of the specifications come from
Actors == {1}
Rooms == {1}

\* the reference lists the upstream serves inside the registration sequence
AllLists == {"u", "f", "g"}

\* Spec: the buttons of one path through the catalog, restart included
PathTexts == {NameGood}
PathPayloads ==
    UniversityPayloads({Institutions[1].title})
    \cup FacultyPayloads(Titles(FacultiesOf(1)))
    \cup GroupPayloads(Titles(GroupsOf(1, 1)))
    \cup ConfirmPayloads \cup {PayloadRestart}

\* SpecWizard: every button of the catalog, a label the catalog does not
\* have, restart included
WizardTexts == {NameGood, NameShort}
WizardPayloads ==
    UniversityPayloads(Titles(Institutions) \cup {<<"X">>})
    \cup FacultyPayloads(UNION {Titles(FacultiesOf(i)) : i \in InstIds})
    \cup GroupPayloads(UNION {Titles(GroupsOf(i, f)) : i \in InstIds, f \in FacIds})
    \cup ConfirmPayloads \cup {PayloadRestart}

\* SpecFullName: every text of at most MaxTokens tokens, each a letter, two
\* letters or a digit, separated by one blank or by two, bare or with a blank
\* on each side
TokenSet == {<<"a">>, <<"a", "b">>, <<"1">>}
Blanks == {<<" ">>, <<" ", " ">>}

RECURSIVE Join(_, _)
Join(toks, sep) ==
    IF toks = <<>> THEN <<>>
    ELSE IF Len(toks) = 1 THEN toks[1]
    ELSE toks[1] \o sep \o Join(Tail(toks), sep)

AllTexts ==
    LET bare == {Join(toks, sep) :
                    toks \in UNION {[1..n -> TokenSet] : n \in 0..MaxTokens},
                    sep \in Blanks}
    IN  bare \cup {<<" ">> \o t \o <<" ">> : t \in bare}

\* the handler in slot i has run up to its next await, or to its end
Install(i, S) ==
    LET done == S.t.pc = "done"
        tasks1 == [tasks EXCEPT ![i] = IF done THEN Idle ELSE S.t]
        reg_refs == {S.pending[u] : u \in Users} \cup {tasks1[j].reg : j \in TaskIds}
        usr_refs == {S.users_db[u] : u \in Users} \cup {tasks1[j].usr : j \in TaskIds}
    IN  /\ tasks' = tasks1
        /\ last' = IF done
                   THEN [act |-> S.t.act, arg |-> S.t.arg, out |-> S.t.out,
                         handled |-> S.t.handled]
                   ELSE last
        /\ users_db' = S.users_db
        /\ pending_registrations' = S.pending
        /\ active_chats' = S.active_chats
        /\ cache' = S.cache
        /\ regs' = [r \in RegSlots |-> IF r \in reg_refs THEN S.regs[r] ELSE FreeReg]
        /\ urecs' = [r \in UserSlots |-> IF r \in usr_refs THEN S.urecs[r] ELSE FreeUser]
        /\ UNCHANGED now

IdleSlots == {i \in TaskIds : tasks[i].pc = "idle"}

Init ==
    /\ users_db = [u \in Users |-> 0]
    /\ urecs = [r \in UserSlots |-> FreeUser]
    /\ pending_registrations = [u \in Users |-> 0]
    /\ regs = [r \in RegSlots |-> FreeReg]
    /\ active_chats = [c \in Chats |-> 0]
    /\ cache = [k \in CacheKeys |-> NoEntry]
    /\ now = 0
    /\ tasks = [i \in TaskIds |-> Idle]
    /\ last = NoLast

\* a BotStarted event
BotStarted(user_id, chat_id) ==
    /\ IdleSlots # {}
    /\ LET i == Min(IdleSlots)
       IN  Install(i, on_bot_started(
                          StateOf(i, NewTask("bot_started", "bot_started",
                                             user_id, chat_id, <<>>)),
                          user_id, chat_id))

\* a MessageCreated event
MessageCreated(user_id, chat_id, raw) ==
    /\ IdleSlots # {}
    /\ LET i == Min(IdleSlots)
       IN  Install(i, message_handler(
                          StateOf(i, NewTask("message", "message", user_id,
                                             chat_id, Strip(raw))),
                          user_id, chat_id, raw))

\* a MessageCallback event
Callback(chat_id, callback_data, scan_p, scan_u) ==
    /\ IdleSlots # {}
    /\ LET i == Min(IdleSlots)
           S == StateOf(i, NewTask("callback", "callback", 0, chat_id, <<>>))
       IN  /\ scan_p \in ScanChoices(PendingInChat(S, chat_id))
           /\ scan_u \in ScanChoices(Registered(S))
           /\ Install(i, handle_callback(S, callback_data, chat_id, scan_p, scan_u))

\* a MessageCallback event pressed by from_user: handlers/callbacks.py reads
\* event.from_user.user_id and hands only the payload and the chat on
CallbackFrom(from_user, chat_id, callback_data, scan_p, scan_u) ==
    /\ from_user \in Users
    /\ Callback(chat_id, callback_data, scan_p, scan_u)

\* the upstream fetch of a reference list answers
FetchDone(i, up_ok) ==
    /\ tasks[i].pc = "fetch"
    /\ LET S == StateOf(i, [tasks[i] EXCEPT !.pc = "run"])
           lst == Upstream(S.t.key, up_ok)
       IN  Install(i, Continue([S EXCEPT !.cache = CacheSet(@, S.t.key, lst, now)],
                               S.t.cont, lst))

\* the upstream fetch of a reference list answers with the list lst
FetchAnswered(i, lst) ==
    /\ tasks[i].pc = "fetch"
    /\ LET S == StateOf(i, [tasks[i] EXCEPT !.pc = "run"])
       IN  Install(i, Continue([S EXCEPT !.cache = CacheSet(@, S.t.key, lst, now)],
                               S.t.cont, lst))

\* the external registration sequence ends
RegisterDone(i, fail, up) ==
    /\ tasks[i].pc = "register"
    /\ Install(i, register_user_in_system(StateOf(i, tasks[i]), fail, up))

\* get_student_by_max_id answers (0: not found, or the request failed)
LookupSidDone(i, system_id) ==
    /\ tasks[i].pc = "lookup_sid"
    /\ Install(i, Commit(StateOf(i, [tasks[i] EXCEPT !.pc = "run"]), system_id))

\* the approval-status query of check_application_status answers
StatusDone(i, is_approved) ==
    /\ tasks[i].pc = "status"
    /\ LET S == StateOf(i, [tasks[i] EXCEPT !.pc = "run"])
       IN  Install(i, StatusCont([S EXCEPT !.urecs[S.t.usr] =
                                               ApplyStatus(@, is_approved)]))

\* the approval-status query of _check_access answers
AccessDone(i, is_approved) ==
    /\ tasks[i].pc = "access"
    /\ LET S == StateOf(i, [tasks[i] EXCEPT !.pc = "run"])
       IN  Install(i, AfterAccess([S EXCEPT !.urecs[S.t.usr] =
                                                AccessAnswer(@, is_approved)],
                                  S.t.cont, is_approved = "yes"))

\* the request a feature handler waits for answers
ContentDone(i, ok) ==
    /\ tasks[i].pc = "content"
    /\ Install(i, ContentReply(StateOf(i, [tasks[i] EXCEPT !.pc = "run"]), ok))

\* the student's data requests of send_profile answer
ProfileDone(i, found) ==
    /\ tasks[i].pc = "profile"
    /\ Install(i, ProfileReply(StateOf(i, [tasks[i] EXCEPT !.pc = "run"]), found))

\* how a request to the external system can end
RequestOutcomes == {"ok", "not_found", "timeout", "server_error"}

\* APIClient.request: the body of a 2xx answer; None for a 404, for any other
\* status, for a timeout and for a connection error
RequestResult(outcome) == IF outcome = "ok" THEN "data" ELSE "none"

\* get_student_data of send_profile answers: None is "student not found"
StudentDataDone(i, outcome) == ProfileDone(i, RequestResult(outcome) = "data")

\* no handler is suspended
Quiet == \A i \in TaskIds : tasks[i].pc = "idle"

\* Handlers overlap: an event is taken while other handlers are suspended.
\* One user in one chat walks one path of the catalog; the upstream serves
\* the reference lists; the external registration may fail at any call.
Next ==
    \/ \E u \in Actors, c \in Rooms : BotStarted(u, c)
    \/ \E u \in Actors, c \in Rooms, raw \in PathTexts : MessageCreated(u, c, raw)
    \/ \E c \in Rooms, p \in PathPayloads, sp \in Users \cup {0}, su \in Users \cup {0} :
          Callback(c, p, sp, su)
    \/ \E i \in TaskIds : FetchDone(i, TRUE)
    \/ \E i \in TaskIds, fail \in RegistrationFailures : RegisterDone(i, fail, AllLists)
    \/ \E i \in TaskIds, u \in Actors \cup {0} :
          LookupSidDone(i, IF u = 0 THEN 0 ELSE SidOf(u))
    \/ \E i \in TaskIds, a \in {"none", "yes", "no"} : StatusDone(i, a)

Spec == Init /\ [][Next]_vars

\* One handler at a time: an event is taken when no handler is suspended.
\* Every button of the catalog in any order, and an upstream that may fail.
NextWizard ==
    \/ Quiet /\ \E u \in Actors, c \in Rooms : BotStarted(u, c)
    \/ Quiet /\ \E u \in Actors, c \in Rooms, raw \in WizardTexts :
          MessageCreated(u, c, raw)
    \/ Quiet /\ \E c \in Rooms, p \in WizardPayloads, sp \in Users \cup {0},
                    su \in Users \cup {0} : Callback(c, p, sp, su)
    \/ \E i \in TaskIds, up_ok \in BOOLEAN : FetchDone(i, up_ok)
    \/ \E i \in TaskIds, fail \in RegistrationFailures, up \in SUBSET AllLists :
          RegisterDone(i, fail, up)
    \/ \E i \in TaskIds, u \in Actors \cup {0} :
          LookupSidDone(i, IF u = 0 THEN 0 ELSE SidOf(u))
    \/ \E i \in TaskIds, a \in {"none", "yes", "no"} : StatusDone(i, a)

SpecWizard == Init /\ [][NextWizard]_vars

\* The full-name step, for every text: the messages of a user who has no
\* registration yet or is at step full_name.
NextFullName ==
    \/ Quiet /\ \E u \in Actors, c \in Rooms : BotStarted(u, c)
    \/ Quiet /\ \E u \in Actors, c \in Rooms, raw \in AllTexts :
          /\ pending_registrations[u] # 0 => regs[pending_registrations[u]].step = "full_name"
          /\ MessageCreated(u, c, raw)
    \/ \E i \in TaskIds, up_ok \in BOOLEAN : FetchDone(i, up_ok)

SpecFullName == Init /\ [][NextFullName]_vars

\* SpecMenu: the texts and the buttons of a registered user, with the path
\* of the wizard that registers the user, a payload no menu action has and a
\* payload that is neither a menu nor a wizard payload
MenuTexts ==
    {NameGood, CmdSchedule, CmdCalendar, CmdAssignments, CmdPrevMonth,
     CmdNextMonth, CmdToday, CmdBack, CmdMainMenu, CmdChat}

PayloadMenuUnknown == PfxMenu \o <<"x">>
PayloadUnknown == <<"x">>

MenuPayloads ==
    PathPayloads
    \cup {PayloadMenuSchedule, PayloadMenuAssignments, PayloadMenuChatbot,
          PayloadMenuStatus, PayloadMenuInfo, PayloadMenuBack, PayloadMenuCalendar,
          PayloadCalendarPrev, PayloadCalendarNext, PayloadCalendarToday,
          PayloadScheduleToday, PayloadScheduleTomorrow,
          PayloadMenuUnknown, PayloadUnknown}

\* the calendar is turned at most MaxMonth months away from the month of now
MonthTurns(delta) ==
    \A r \in UserSlots :
        urecs[r] # FreeUser =>
            /\ urecs[r].selected_month + delta <= MaxMonth
            /\ urecs[r].selected_month + delta >= -MaxMonth

TurnsWithin(act) ==
    /\ act = "calendar_prev" => MonthTurns(-1)
    /\ act = "calendar_next" => MonthTurns(1)

\* One handler at a time, for one user in one chat: the wizard's path, then
\* the menu by button and by text; every remote query may fail.
NextMenu ==
    \/ Quiet /\ \E u \in Actors, c \in Rooms : BotStarted(u, c)
    \/ Quiet /\ \E u \in Actors, c \in Rooms, raw \in MenuTexts :
          /\ TurnsWithin(MatchedCommand(Strip(raw)))
          /\ MessageCreated(u, c, raw)
    \/ Quiet /\ \E c \in Rooms, p \in MenuPayloads, sp \in Users \cup {0},
                    su \in Users \cup {0} :
          /\ TurnsWithin(MenuActionOf(p))
          /\ Callback(c, p, sp, su)
    \/ \E i \in TaskIds : FetchDone(i, TRUE)
    \/ \E i \in TaskIds, fail \in {"none", "api"} : RegisterDone(i, fail, AllLists)
    \/ \E i \in TaskIds, u \in Actors \cup {0} :
          LookupSidDone(i, IF u = 0 THEN 0 ELSE SidOf(u))
    \/ \E i \in TaskIds, a \in {"none", "yes", "no"} : StatusDone(i, a)
    \/ \E i \in TaskIds, a \in {"none", "yes", "no"} : AccessDone(i, a)
    \/ \E i \in TaskIds, ok \in BOOLEAN : ContentDone(i, ok)

SpecMenu == Init /\ [][NextMenu]_vars

\* SpecAccess: the user registers with one handler at a time; the
\* registered user's presses of the schedule button and of the status button
\* are taken while other handlers wait for their approval-status queries.
AccessPayloads == {PayloadMenuSchedule, PayloadMenuStatus}

NextAccess ==
    \/ Quiet /\ \E u \in Actors, c \in Rooms : BotStarted(u, c)
    \/ Quiet /\ \E u \in Actors, c \in Rooms, raw \in PathTexts :
          MessageCreated(u, c, raw)
    \/ Quiet /\ \E c \in Rooms, p \in PathPayloads, sp \in Users \cup {0},
                    su \in Users \cup {0} : Callback(c, p, sp, su)
    \/ \E c \in Rooms, p \in AccessPayloads, sp \in Users \cup {0},
           su \in Users \cup {0} :
          /\ active_chats[c] # 0
          /\ users_db[active_chats[c]] # 0
          /\ Callback(c, p, sp, su)
    \/ \E i \in TaskIds : FetchDone(i, TRUE)
    \/ \E i \in TaskIds, fail \in {"none", "api"} : RegisterDone(i, fail, AllLists)
    \/ \E i \in TaskIds, u \in Actors \cup {0} :
          LookupSidDone(i, IF u = 0 THEN 0 ELSE SidOf(u))
    \/ \E i \in TaskIds, a \in {"none", "yes", "no"} : StatusDone(i, a)
    \/ \E i \in TaskIds, a \in {"none", "yes", "no"} : AccessDone(i, a)

SpecAccess == Init /\ [][NextAccess]_vars

\* SpecRaise: the path of the wizard and the university-info button, taken
\* when no handler is suspended or when the suspended handlers are university
\* selections that wait for the list of universities.
OnlySelectionsWait ==
    \A i \in TaskIds :
        \/ tasks[i].pc = "idle"
        \/ tasks[i].pc = "fetch" /\ tasks[i].cont = "uni_select"

RaisePayloads == PathPayloads \cup {PayloadMenuInfo}

NextRaise ==
    \/ OnlySelectionsWait /\ \E u \in Actors, c \in Rooms : BotStarted(u, c)
    \/ OnlySelectionsWait /\ \E u \in Actors, c \in Rooms, raw \in PathTexts :
          MessageCreated(u, c, raw)
    \/ OnlySelectionsWait /\ \E c \in Rooms, p \in RaisePayloads, sp \in Users \cup {0},
                                 su \in Users \cup {0} : Callback(c, p, sp, su)
    \/ \E i \in TaskIds : FetchDone(i, TRUE)
    \/ \E i \in TaskIds, fail \in {"none", "api"} : RegisterDone(i, fail, AllLists)
    \/ \E i \in TaskIds, u \in Actors \cup {0} :
          LookupSidDone(i, IF u = 0 THEN 0 ELSE SidOf(u))
    \/ \E i \in TaskIds, a \in {"none", "yes", "no"} : StatusDone(i, a)
    \/ \E i \in TaskIds, a \in {"none", "yes", "no"} : AccessDone(i, a)

SpecRaise == Init /\ [][NextRaise]_vars

\* SpecResolve: two users register one after the other in the same chat, one
\* handler at a time; buttons of the wizard's path and the schedule button
\* are pressed in that chat and in a chat no user was seen in.
ResolvePayloads == (PathPayloads \ {PayloadRestart}) \cup {PayloadMenuSchedule}

NextResolve ==
    \/ Quiet /\ \E u \in Users, c \in Rooms : BotStarted(u, c)
    \/ Quiet /\ \E u \in Users, c \in Rooms, raw \in PathTexts :
          MessageCreated(u, c, raw)
    \/ Quiet /\ \E c \in Chats, p \in ResolvePayloads, sp \in Users \cup {0},
                    su \in Users \cup {0} :
          /\ c \notin Rooms => p = PayloadMenuSchedule
          /\ Callback(c, p, sp, su)
    \/ \E i \in TaskIds : FetchDone(i, TRUE)
    \/ \E i \in TaskIds : RegisterDone(i, "none", AllLists)
    \/ \E i \in TaskIds, u \in Users :
          tasks[i].user = u /\ LookupSidDone(i, SidOf(u))
    \/ \E i \in TaskIds, a \in {"yes", "no"} : StatusDone(i, a)
    \/ \E i \in TaskIds, a \in {"yes", "no"} : AccessDone(i, a)

SpecResolve == Init /\ [][NextResolve]_vars

\* SpecDecode: the path of the wizard, one handler at a time, with payloads
\* that have no known prefix, a known prefix with fields missing, or no
\* characters at all.
MalformedPayloads ==
    {PfxUniversity, PfxFaculty, PfxGroup, PfxConfirm, PfxUniversity \o <<"1">>,
     PfxConfirm \o WordYes, PayloadUnknown, PayloadMenuUnknown, <<>>}

NextDecode ==
    \/ Quiet /\ \E u \in Actors, c \in Rooms : BotStarted(u, c)
    \/ Quiet /\ \E u \in Actors, c \in Rooms, raw \in PathTexts :
          MessageCreated(u, c, raw)
    \/ Quiet /\ \E c \in Chats, p \in PathPayloads \cup MalformedPayloads,
                    sp \in Users \cup {0}, su \in Users \cup {0} :
          /\ c \notin Rooms => p \in MalformedPayloads
          /\ Callback(c, p, sp, su)
    \/ \E i \in TaskIds : FetchDone(i, TRUE)
    \/ \E i \in TaskIds, fail \in {"none", "api"} : RegisterDone(i, fail, AllLists)
    \/ \E i \in TaskIds, u \in Actors \cup {0} :
          LookupSidDone(i, IF u = 0 THEN 0 ELSE SidOf(u))
    \/ \E i \in TaskIds, a \in {"none", "yes", "no"} : StatusDone(i, a)

SpecDecode == Init /\ [][NextDecode]_vars

(***************************************************************************)
(* What the properties below observe.                                      *)
(***************************************************************************)
Range(s) == {s[i] : i \in 1..Len(s)}

\* the pending registration of a user (FreeReg when there is none), its step
\* ("free" when there is none) and the user's record (FreeUser when none)
RegOf(u) ==
    IF pending_registrations[u] = 0 THEN FreeReg ELSE regs[pending_registrations[u]]
StepOf(u) == RegOf(u).step
RecOf(u) == IF users_db[u] = 0 THEN FreeUser ELSE urecs[users_db[u]]

\* the replies, after this step, of the handler the step ran in slot i
OutAfter(i) == IF tasks'[i].pc = "idle" THEN last'.out ELSE tasks'[i].out
\* the same for the handler of the event this step took
EventOut == OutAfter(Min(IdleSlots))
\* the handler of the event this step took ended in this step
EventEnded == tasks' = tasks

SelKinds == {"university", "faculty", "group"}

PrefixOf(kind) ==
    CASE kind = "university" -> PfxUniversity
      [] kind = "faculty" -> PfxFaculty
      [] kind = "group" -> PfxGroup

ContOf(kind) ==
    CASE kind = "university" -> "uni_select"
      [] kind = "faculty" -> "fac_select"
      [] kind = "group" -> "grp_select"

\* the ids a selection of the kind needs in the registration
ParentsPresent(kind, reg) ==
    CASE kind = "university" -> TRUE
      [] kind = "faculty" -> Has(reg, "institution_id")
      [] kind = "group" -> Has(reg, "institution_id") /\ Has(reg, "faculty_id")

\* the reference list a selection of the kind is resolved in
KeyOf(kind, reg) ==
    CASE kind = "university" -> KeyUniversities
      [] kind = "faculty" -> KeyFaculties(reg.institution_id)
      [] kind = "group" -> KeyGroups(reg.institution_id, reg.faculty_id)

LabelsOf(kind) ==
    CASE kind = "university" -> Titles(Institutions) \cup {<<"X">>}
      [] kind = "faculty" -> UNION {Titles(FacultiesOf(i)) : i \in InstIds}
      [] kind = "group" -> UNION {Titles(GroupsOf(i, f)) : i \in InstIds, f \in FacIds}

RefLists == {Upstream(k, ok) : k \in CacheKeys, ok \in BOOLEAN}

\* This step resolves the label of a selection of user 1 in the list lst: the
\* callback itself when the list is cached, the answer of the fetch otherwise.
Resolving(kind, label, lst) ==
    \/ /\ pending_registrations[1] # 0
       /\ ParentsPresent(kind, RegOf(1))
       /\ CacheFresh(cache, KeyOf(kind, RegOf(1)), now)
       /\ lst = cache[KeyOf(kind, RegOf(1))].value
       /\ \E c \in Rooms, sp \in Users \cup {0}, su \in Users \cup {0} :
             Callback(c, EncodeSelection(PrefixOf(kind), 1, label), sp, su)
    \/ \E i \in TaskIds, up_ok \in BOOLEAN :
          /\ tasks[i].pc = "fetch"
          /\ tasks[i].cont = ContOf(kind)
          /\ tasks[i].arg = label
          /\ pending_registrations[1] # 0
          /\ lst = Upstream(tasks[i].key, up_ok)
          /\ FetchDone(i, up_ok)

(***************************************************************************)
(* Properties.                                                             *)
(***************************************************************************)
\* C1: in every reachable state, handlers suspended and interleaved or not,
\* no user has both a pending registration and a user record.
NeverPendingAndRegistered ==
    \A u \in Users : ~(pending_registrations[u] # 0 /\ users_db[u] # 0)

\* C1, reached: a record was committed while another handler of the same
\* user is still inside its own commit
CommittedWhileCommitting ==
    /\ users_db[1] # 0
    /\ pending_registrations[1] = 0
    /\ \E i \in TaskIds : tasks[i].user = 1 /\ tasks[i].pc \in {"register", "lookup_sid"}

\* C2: of two confirmations "yes" of one complete registration handled at
\* the same time only one starts the commit: never are two handlers inside
\* the commit (the external registration sequence and the student lookup
\* after it) of the same registration.
OneCommitPerRegistration ==
    \A i \in TaskIds, j \in TaskIds :
        /\ i # j
        /\ tasks[i].pc \in {"register", "lookup_sid"}
        /\ tasks[j].pc \in {"register", "lookup_sid"}
        /\ tasks[i].call.group # <<>>
        /\ tasks[j].call.group # <<>>
        => tasks[i].reg # tasks[j].reg

\* the place of a wizard step, and of the step a callback belongs to
StepRank(step) ==
    CASE step = "full_name" -> 1
      [] step = "university" -> 2
      [] step = "faculty" -> 3
      [] step = "group" -> 4
      [] step = "confirmation" -> 5
      [] OTHER -> 0

PayloadRank(p) ==
    IF StartsWith(p, PfxUniversity) THEN 2
    ELSE IF StartsWith(p, PfxFaculty) THEN 3
    ELSE IF StartsWith(p, PfxGroup) THEN 4
    ELSE IF StartsWith(p, PfxConfirm) THEN 5
    ELSE 0

\* C3: a university_, faculty_ or group_ callback that belongs to a later
\* wizard step than the step the user's pending registration is at is
\* rejected: the registration keeps its step and its fields and no user record
\* is created.
LaterStepCallbackRejected ==
    [][\A kind \in SelKinds :
       \A label \in LabelsOf(kind), c \in Rooms, sp \in Users \cup {0},
          su \in Users \cup {0} :
          /\ Callback(c, EncodeSelection(PrefixOf(kind), 1, label), sp, su)
          /\ pending_registrations[1] # 0
          /\ PayloadRank(EncodeSelection(PrefixOf(kind), 1, label)) > StepRank(StepOf(1))
          => /\ RegOf(1)' = RegOf(1)
             /\ users_db' = users_db]_vars

\* C4: a faculty is stored only in a registration that has an institution_id
\* and a group only in one that has an institution_id and a faculty_id; a
\* faculty or group callback without them is rejected with the registration
\* unchanged, and a group callback at step full_name leaves the step there.
ParentIdsRequired ==
    [][/\ \A r \in RegSlots :
            /\ regs[r] # FreeReg /\ regs'[r] # FreeReg
               /\ GetLabel(regs'[r], "faculty") # GetLabel(regs[r], "faculty")
               => Has(regs[r], "institution_id")
            /\ regs[r] # FreeReg /\ regs'[r] # FreeReg
               /\ GetLabel(regs'[r], "group") # GetLabel(regs[r], "group")
               => Has(regs[r], "institution_id") /\ Has(regs[r], "faculty_id")
       /\ \A r \in RegSlots :
            regs[r] = FreeReg => ~Has(regs'[r], "faculty") /\ ~Has(regs'[r], "group")
       /\ \A kind \in {"faculty", "group"} :
          \A label \in LabelsOf(kind), c \in Rooms, sp \in Users \cup {0},
             su \in Users \cup {0} :
            /\ Callback(c, EncodeSelection(PrefixOf(kind), 1, label), sp, su)
            /\ pending_registrations[1] # 0
            /\ ~ParentsPresent(kind, RegOf(1)) \/ StepOf(1) = "full_name"
            => /\ RegOf(1)' = RegOf(1)
               /\ EventEnded
               /\ ~last'.handled
               /\ last'.act = kind]_vars

\* C4, reached: a group callback was rejected at step full_name
GroupRejectedAtFullName ==
    /\ Quiet
    /\ last.act = "group"
    /\ ~last.handled
    /\ StepOf(1) = "full_name"

\* a confirmation word pressed by user 1
Confirming(word) ==
    \E c \in Rooms, sp \in Users \cup {0}, su \in Users \cup {0} :
        Callback(c, EncodeConfirm(word, 1), sp, su)

\* the field a selection of the kind stores, and the field of its id
FieldOf(kind) == kind
IdFieldOf(kind) ==
    CASE kind = "university" -> "institution_id"
      [] kind = "faculty" -> "faculty_id"
      [] kind = "group" -> "group_id"

NextStep(step) ==
    CASE step = "full_name" -> "university"
      [] step = "university" -> "faculty"
      [] step = "faculty" -> "group"
      [] step = "group" -> "confirmation"

UnresolvedSelectionRejected ==
    [][\A kind \in SelKinds :
       \A label \in LabelsOf(kind), lst \in RefLists :
          /\ Resolving(kind, label, lst)
          /\ ~Resolve(lst, label).found
          => /\ pending_registrations' = pending_registrations
             /\ RegOf(1)' = RegOf(1)
             /\ users_db' = users_db
             /\ Quiet'
             /\ last'.act = kind
             /\ ~last'.handled
             /\ "cb_not_handled" \in Range(last'.out)]_vars

\* C8, reached: a faculty that is not of the chosen institution was refused
FacultyNotResolved ==
    /\ Quiet
    /\ last.act = "faculty"
    /\ "fac_not_found" \in Range(last.out)
    /\ StepOf(1) = "faculty"
    /\ ~Has(RegOf(1), "faculty")

\* C9: a confirmation "no" of a user with a pending registration leaves that
\* user a pending registration at step full_name with none of the collected
\* fields, and creates no user record.
NoWipesRegistration ==
    [][\A c \in Rooms, sp \in Users \cup {0}, su \in Users \cup {0} :
          /\ Callback(c, EncodeConfirm(WordNo, 1), sp, su)
          /\ pending_registrations[1] # 0
          => /\ pending_registrations'[1] # 0
             /\ RegOf(1)' = [step |-> "full_name", chat_id |-> c]
             /\ users_db'[1] = 0
             /\ users_db' = users_db]_vars

\* C9, reached: "no" was pressed on a registration that had collected a
\* university, and the user is back at step full_name
BackAtFullNameAfterNo ==
    /\ Quiet
    /\ last.act = "confirm"
    /\ last.arg = WordNo
    /\ last.handled
    /\ StepOf(1) = "full_name"
    /\ cache[KeyFaculties(1)] # NoEntry

CallComplete(call) ==
    /\ call.full_name # <<>> /\ call.university # <<>>
    /\ call.faculty # <<>> /\ call.group # <<>>

\* C10: when a call of the external registration fails, the commit of a
\* complete pending registration still stores the user record (status
\* pending, application_approved false), removes the pending registration and
\* reports that the profile could not be synchronized.
FailedRegistrationStillCommits ==
    [][/\ \A i \in TaskIds, fail \in RegistrationFailures \ {"none"},
             up \in SUBSET AllLists :
             /\ RegisterDone(i, fail, up)
             /\ CallComplete(tasks[i].call)
             => /\ ~tasks'[i].ok
                /\ tasks'[i].pc = "lookup_sid"
                /\ pending_registrations' = pending_registrations
       /\ \A i \in TaskIds, u \in Actors \cup {0} :
             /\ LookupSidDone(i, IF u = 0 THEN 0 ELSE SidOf(u))
             /\ ~tasks[i].ok
             /\ tasks[i].user = 1
             /\ Has(regs[tasks[i].reg], "group")
             => /\ pending_registrations'[1] = 0
                /\ users_db'[1] # 0
                /\ RecOf(1)'.status = "pending"
                /\ RecOf(1)'.application_approved = FALSE
                /\ RecOf(1)'.full_name = tasks[i].call.full_name
                /\ "registered_unsynced" \in Range(OutAfter(i))]_vars

\* C10, reached: a registration whose external registration failed was
\* committed and reported as not synchronized
CommittedUnsynced ==
    /\ Quiet
    /\ last.act = "confirm"
    /\ "registered_unsynced" \in Range(last.out)
    /\ users_db[1] # 0
    /\ RecOf(1).faculty = <<"F">>
    /\ pending_registrations[1] = 0

\* the whitespace-separated tokens of a text
Tokens(raw) == SplitWs(raw, <<>>)

\* the texts that message_handler trims to the same text
RawsOf == [t \in {Strip(raw) : raw \in AllTexts} |->
              {raw \in AllTexts : Strip(raw) = t}]

\* the argument, after this step, of the handler of the event the step took
EventArg == IF EventEnded THEN last'.arg ELSE tasks'[Min(IdleSlots)].arg

\* the texts a message of this step may have been
RawsOfStep == IF EventArg \in DOMAIN RawsOf THEN RawsOf[EventArg] ELSE {}

\* 2 or 3 tokens, letters only, and at least 5 characters once message_handler
\* has trimmed the text
WellFormedName(raw) ==
    /\ Len(Tokens(raw)) \in {2, 3}
    /\ \A k \in 1..Len(Tokens(raw)) : IsAlpha(Tokens(raw)[k])
    /\ Len(Strip(raw)) >= 5

\* C6: at step full_name a text with fewer than 2 or more than 3 tokens, or
\* with a token that is not alphabetic, is rejected: the pending registration
\* is unchanged (still at full_name, no full_name stored) and the handler ends
\* with the validation message.
MalformedNameRejected ==
    [][\A c \in Rooms, raw \in RawsOfStep :
          /\ MessageCreated(1, c, raw)
          /\ StepOf(1) = "full_name"
          /\ \/ Len(Tokens(raw)) < 2
             \/ Len(Tokens(raw)) > 3
             \/ \E k \in 1..Len(Tokens(raw)) : ~IsAlpha(Tokens(raw)[k])
          => /\ RegOf(1)' = RegOf(1)
             /\ StepOf(1)' = "full_name"
             /\ ~Has(RegOf(1)', "full_name")
             /\ EventEnded
             /\ last'.out \in {<<"too_few">>, <<"too_many">>, <<"not_alpha">>}]_vars

\* C6, reached: a text of four tokens was rejected at step full_name
FourTokensRejected ==
    /\ Quiet
    /\ last.act = "message"
    /\ last.out = <<"too_many">>
    /\ StepOf(1) = "full_name"

\* C7: at step full_name a text is accepted exactly when it has 2 or 3
\* tokens, all alphabetic, and at least 5 characters; exactly then the step
\* becomes university and the text is stored as full_name, otherwise the
\* registration is unchanged.
NameAcceptedExactlyWhenWellFormed ==
    [][\A c \in Rooms, raw \in RawsOfStep :
          /\ MessageCreated(1, c, raw)
          /\ StepOf(1) = "full_name"
          => /\ WellFormedName(raw)
                => /\ StepOf(1)' = "university"
                   /\ RegOf(1)'.full_name = Strip(raw)
             /\ ~WellFormedName(raw)
                => /\ RegOf(1)' = RegOf(1)
                   /\ EventEnded
                   /\ last'.out # <<>>]_vars

\* C7, reached: a name of three one-letter tokens was stored, and the user is
\* at step university
ThreeTokenNameStored ==
    /\ StepOf(1) = "university"
    /\ RegOf(1).full_name = <<"a", " ", "a", " ", "a">>
    /\ last.act = "message"

(***************************************************************************)
(* The access gate.                                                        *)
(***************************************************************************)
\* the action message_handler runs for a text of registered user u
TextAction(u, raw) ==
    IF RecOf(u).in_chat_mode /\ Lower(Strip(raw)) \notin {CmdMenu, CmdBack, CmdSlashMenu}
    THEN "ai"
    ELSE MatchedCommand(Strip(raw))

\* after the step no handler waits for the approval-status query of
\* _check_access
NoAccessQuery == \A i \in TaskIds : tasks'[i].pc # "access"

\* the step is the one in which the handler of a gated action went past its
\* access checks: its content was sent, or it waits for its content
Passed(act) ==
    CASE act = "menu_schedule" -> "schedule_menu" \in Range(EventOut)
      [] act = "menu_chatbot" -> "chat_welcome" \in Range(EventOut)
      [] act \in CalendarActions -> "calendar" \in Range(EventOut)
      [] act \in {"schedule_today", "schedule_tomorrow"} -> "schedule" \in Range(EventOut)
      [] act = "menu_info" -> "menu_action_failed" \in Range(EventOut)
      [] OTHER -> \/ tasks'[Min(IdleSlots)].pc = "content"
                  \/ "ai_empty" \in Range(EventOut)

\* C11: when the user's record has application_approved true, the access
\* check of every gated action (by button and by text) returns true without
\* the remote approval-status query: no handler waits for the query after the
\* event, and the action's handler went past the check.
ApprovedPassesWithoutQuery ==
    [][\A c \in Rooms, u \in Actors :
          (users_db[u] # 0 /\ RecOf(u).application_approved) =>
              /\ \A p \in MenuPayloads, sp \in Users \cup {0}, su \in Users \cup {0} :
                    (/\ active_chats[c] = u
                     /\ MenuActionOf(p) \in RequiredAccess
                     /\ Callback(c, p, sp, su))
                        => NoAccessQuery /\ Passed(MenuActionOf(p))
              /\ \A raw \in MenuTexts :
                    (/\ TextAction(u, raw) \in RequiredAccess \cup {"ai"}
                     /\ MessageCreated(u, c, raw))
                        => NoAccessQuery /\ Passed(TextAction(u, raw))]_vars

\* C11, reached: an approved user who is in chat mode and has the calendar
\* open has turned the calendar to the next month
ApprovedTurnedCalendar ==
    /\ users_db[1] # 0
    /\ RecOf(1).application_approved
    /\ RecOf(1).in_chat_mode
    /\ RecOf(1).selected_month = 1
    /\ last.act = "calendar_next"
    /\ last.out = <<"calendar">>
    /\ Quiet


\* C12: when the approval-status query of the access check fails (no answer,
\* an error status, an answer without an approval value), the check returns
\* false (the handler that waited ends with the access-restricted reply and
\* nothing else) and the user's application_approved and status are what they
\* were before.
FailedQueryDeniesUnchanged ==
    [][\A i \in TaskIds :
          AccessDone(i, "none") =>
              LET r == tasks[i].usr
              IN  /\ urecs'[r].application_approved = urecs[r].application_approved
                  /\ urecs'[r].status = urecs[r].status
                  /\ urecs'[r].system_id = urecs[r].system_id
                  /\ tasks'[i].pc = "idle"
                  /\ last'.out = Append(tasks[i].out, "access_restricted")]_vars

\* C12, reached: a registered user with a system_id whose application is not
\* approved asked for the assignments, the query was made and the request
\* ended with the access-restricted reply
DeniedAfterQuery ==
    /\ users_db[1] # 0
    /\ RecOf(1).system_id # 0
    /\ ~RecOf(1).application_approved
    /\ RecOf(1).status = "pending"
    /\ last.act = "menu_assignments"
    /\ last.out = <<"access_restricted">>
    /\ Quiet


\* C13: in every execution, overlapping access checks and resyncs included,
\* a user's application_approved goes from true to false only in a step of
\* the full resync check_application_status whose query answered "not
\* approved"; the access check never does it.
OnlyResyncRevokes ==
    [][\A u \in Users :
          (/\ users_db[u] # 0
           /\ users_db'[u] = users_db[u]
           /\ urecs[users_db[u]].application_approved
           /\ ~urecs'[users_db[u]].application_approved)
              => \E i \in TaskIds : StatusDone(i, "no")]_vars


(***************************************************************************)
(* The full resync.                                                        *)
(***************************************************************************)
\* C14: check_application_status on a user with a system_id makes the remote
\* query whatever application_approved is (the status button leaves its
\* handler waiting for the answer, the record untouched); an "approved"
\* answer sets (application_approved true, status approved), a "not approved"
\* answer sets (false, pending), and a failed query changes neither field and
\* is reported as a failure.
ResyncAlwaysQueries ==
    [][/\ \A c \in Rooms, sp \in Users \cup {0}, su \in Users \cup {0} :
            (/\ active_chats[c] # 0
             /\ users_db[active_chats[c]] # 0
             /\ RecOf(active_chats[c]).system_id # 0
             /\ Callback(c, PayloadMenuStatus, sp, su))
                => /\ tasks'[Min(IdleSlots)].pc = "status"
                   /\ tasks'[Min(IdleSlots)].out = <<>>
                   /\ urecs' = urecs
       /\ \A i \in TaskIds, a \in {"none", "yes", "no"} :
            StatusDone(i, a) =>
                LET r == tasks[i].usr
                IN  /\ a = "yes" => /\ urecs'[r].application_approved
                                    /\ urecs'[r].status = "approved"
                                    /\ StatusUpdated(a)
                    /\ a = "no" => /\ ~urecs'[r].application_approved
                                   /\ urecs'[r].status = "pending"
                                   /\ StatusUpdated(a)
                    /\ a = "none" =>
                          /\ urecs'[r].application_approved = urecs[r].application_approved
                          /\ urecs'[r].status = urecs[r].status
                          /\ ~StatusUpdated(a)]_vars

\* C14, reached: a user who was approved (the chat mode was entered) asked
\* for the application status, and the resync's answer took the approval back
ResyncRevoked ==
    /\ users_db[1] # 0
    /\ RecOf(1).in_chat_mode
    /\ ~RecOf(1).application_approved
    /\ RecOf(1).status = "pending"
    /\ last.act = "menu_status"
    /\ last.out = <<"status_pending">>
    /\ Quiet


(***************************************************************************)
(* The gated actions of the menu.                                          *)
(***************************************************************************)
\* the gated actions a button or a command word reaches
GatedActions ==
    {"menu_schedule", "menu_assignments", "menu_chatbot", "schedule_today",
     "schedule_tomorrow"} \cup CalendarActions

\* what the handlers of the gated actions send when they run
FeatureReplies ==
    {"schedule_menu", "chat_welcome", "calendar", "schedule", "assignments",
     "no_subjects"}

UiSame(r) ==
    /\ urecs'[r].in_chat_mode = urecs[r].in_chat_mode
    /\ urecs'[r].calendar_state = urecs[r].calendar_state
    /\ urecs'[r].selected_month = urecs[r].selected_month

\* the access check of this step's dispatch returned true: the record is
\* approved after the step (by the fast path, or by the answer just written)
GrantedNow(r) == urecs'[r].application_approved /\ urecs'[r].status = "approved"

\* the handler in slot i acted on the user's record r in this step
FeatureActed(i, r) ==
    \/ Range(OutAfter(i)) \cap FeatureReplies # {}
    \/ tasks'[i].pc = "content"
    \/ ~UiSame(r)

\* the step of the handler in slot i, given what the handler may have sent
\* when it is denied
GateStep(i, r, denials) ==
    /\ FeatureActed(i, r) => GrantedNow(r)
    /\ (~GrantedNow(r) /\ tasks'[i].pc = "idle") =>
          /\ OutAfter(i) \in denials
          /\ UiSame(r)

GateSteps(denials) ==
    /\ \A c \in Rooms, u \in Actors, p \in MenuPayloads, sp \in Users \cup {0},
          su \in Users \cup {0} :
          (/\ active_chats[c] = u
           /\ users_db[u] # 0
           /\ MenuActionOf(p) \in GatedActions
           /\ Callback(c, p, sp, su))
              => GateStep(Min(IdleSlots), users_db[u], denials)
    /\ \A c \in Rooms, u \in Actors, raw \in MenuTexts :
          (/\ users_db[u] # 0
           /\ pending_registrations[u] = 0
           /\ TextAction(u, raw) \in GatedActions
           /\ MessageCreated(u, c, raw))
              => GateStep(Min(IdleSlots), users_db[u], denials)
    /\ \A i \in TaskIds, a \in {"none", "yes", "no"} :
          (tasks[i].act \in GatedActions /\ AccessDone(i, a))
              => GateStep(i, tasks[i].usr, denials)

\* C15: for every gated action, by button and by command word, the feature
\* handler acts (content sent, in_chat_mode / calendar_state / selected_month
\* changed) only when the access check of the dispatch returned true; on a
\* denial the access-restricted reply is the only reply of the event and the
\* UI-state fields are unchanged.
GatedOnlyAfterGrant == [][GateSteps({<<"access_restricted">>})]_vars


\* What does hold at the gate: the feature handler acts only after a grant,
\* and a denied event is answered with the access-restricted reply, after
\* the date-format reply when message_handler first took the command word of
\* a user whose calendar is open for a date.
GatedUpToDateReply ==
    [][GateSteps({<<"access_restricted">>, <<"bad_date", "access_restricted">>})]_vars


(***************************************************************************)
(* The dispatch of the menu buttons.                                       *)
(***************************************************************************)
\* the user handle_menu_callback resolves for the chat when the scan of the
\* pending registrations meets scan_p and the scan of users_db meets scan_u
ResolvedUser(c, sp, su) ==
    IF active_chats[c] # 0 THEN active_chats[c] ELSE IF sp # 0 THEN sp ELSE su

\* C16: a menu button other than restart_registration pressed for a resolved
\* user who has no record fails with the profile-not-found reply before any
\* access check or handler: no query is started, no handler replies, and the
\* pending registrations, the user records and their approval fields are
\* what they were.
ProfileNotFoundFirst ==
    [][\A c \in Rooms, p \in MenuPayloads, sp \in Users \cup {0}, su \in Users \cup {0} :
          (/\ IsMenuPayload(p)
           /\ p # PayloadRestart
           /\ ResolvedUser(c, sp, su) # 0
           /\ users_db[ResolvedUser(c, sp, su)] = 0
           /\ Callback(c, p, sp, su))
              => /\ tasks' = tasks
                 /\ last'.out # <<>>
                 /\ last'.out[1] = "menu_profile_not_found"
                 /\ Range(last'.out) \subseteq {"menu_profile_not_found", "cb_not_handled"}
                 /\ ~last'.handled
                 /\ pending_registrations' = pending_registrations
                 /\ regs' = regs
                 /\ users_db' = users_db
                 /\ urecs' = urecs]_vars

\* C16, reached: a user who is choosing the faculty pressed the schedule
\* button and got the profile-not-found reply; the registration is still
\* at its step
NoProfileDuringWizard ==
    /\ users_db[1] = 0
    /\ StepOf(1) = "faculty"
    /\ last.out = <<"menu_profile_not_found", "cb_not_handled">>
    /\ Quiet


(***************************************************************************)
(* Exceptions in the handlers of the buttons.                              *)
(***************************************************************************)
\* the step ends the callback handler of slot i
CallbackEnds(i) ==
    /\ tasks[i].pc # "idle"
    /\ tasks[i].kind = "callback"
    /\ tasks'[i].pc = "idle"

\* the last reply of the finished handler is one of the entry point's
\* failure replies
FailureReplied ==
    /\ last'.out # <<>>
    /\ last'.out[Len(last'.out)] \in {"cb_exception", "cb_not_handled"}
    /\ ~last'.handled

\* C17: an exception raised while a button callback is handled is caught and
\* answered with a generic failure reply, and the entry point returns.  A
\* university selection whose pending registration is gone when the list
\* arrives ends with the exception reply; the handler of the university-info
\* button, which raises for an approved user, ends with the action-failed
\* reply; and no callback handler ends without success and without a
\* failure reply.
ExceptionsBecomeReplies ==
    [][/\ \A i \in TaskIds :
            (/\ tasks[i].pc = "fetch"
             /\ tasks[i].cont = "uni_select"
             /\ pending_registrations[tasks[i].user] = 0
             /\ FetchDone(i, TRUE))
                => /\ tasks'[i].pc = "idle"
                   /\ last'.out = Append(tasks[i].out, "cb_exception")
                   /\ ~last'.handled
       /\ \A c \in Rooms, sp \in Users \cup {0}, su \in Users \cup {0} :
            (/\ active_chats[c] # 0
             /\ users_db[active_chats[c]] # 0
             /\ RecOf(active_chats[c]).application_approved
             /\ Callback(c, PayloadMenuInfo, sp, su))
                => /\ tasks' = tasks
                   /\ last'.out = <<"menu_action_failed", "cb_not_handled">>
                   /\ ~last'.handled
       /\ \A i \in TaskIds :
            (tasks[i].act = "menu_info" /\ AccessDone(i, "yes"))
                => /\ tasks'[i].pc = "idle"
                   /\ last'.out = <<"menu_action_failed", "cb_not_handled">>
       /\ \A i \in TaskIds : CallbackEnds(i) => (last'.handled \/ FailureReplied)
       /\ \A c \in Rooms, p \in RaisePayloads, sp \in Users \cup {0}, su \in Users \cup {0} :
            (Callback(c, p, sp, su) /\ tasks' = tasks)
                => (last'.handled \/ FailureReplied)]_vars

\* C17, reached: a university selection waited for the list while the user
\* completed the registration; when the list arrived the pending registration
\* was gone, and the handler ended with the exception reply
SelectionOutlivedRegistration ==
    /\ users_db[1] # 0
    /\ pending_registrations[1] = 0
    /\ last.act = "university"
    /\ last.out = <<"cb_exception">>
    /\ ~last.handled
    /\ Quiet


\* C17, also reached: the university-info button of an approved user
InfoButtonFailed ==
    /\ users_db[1] # 0
    /\ RecOf(1).application_approved
    /\ last.act = "menu_info"
    /\ last.out = <<"menu_action_failed", "cb_not_handled">>
    /\ Quiet


(***************************************************************************)
(* The replies of a rejected button press.                                 *)
(***************************************************************************)
\* the replies that report a failure of a button press
ErrorReplies ==
    {"cb_not_handled", "cb_exception", "menu_user_not_found",
     "menu_profile_not_found", "uni_not_found", "fac_not_found", "grp_not_found",
     "menu_action_failed"}

ErrorCount(out) == Cardinality({k \in 1..Len(out) : out[k] \in ErrorReplies})

\* C18: every rejected button press (payload not recognized, user not
\* resolvable, profile not found, selection rejected, handler failed) is
\* answered with exactly one error reply, never none and never two.
OneErrorReplyPerRejection ==
    [][/\ \A c \in Rooms, p \in MenuPayloads, sp \in Users \cup {0}, su \in Users \cup {0} :
            (Callback(c, p, sp, su) /\ tasks' = tasks /\ ~last'.handled)
                => ErrorCount(last'.out) = 1
       /\ \A i \in TaskIds :
            (CallbackEnds(i) /\ ~last'.handled) => ErrorCount(last'.out) = 1]_vars


(***************************************************************************)
(* Texts during the registration.                                          *)
(***************************************************************************)
\* C19: every text of a user who has a pending registration, at whatever
\* step of the wizard, is answered: the handler of the message replies, or it
\* waits for a list and replies when the list arrives.
EveryWizardTextAnswered ==
    [][/\ \A u \in Actors, c \in Rooms, raw \in WizardTexts :
            (pending_registrations[u] # 0 /\ MessageCreated(u, c, raw))
                => (EventOut # <<>> \/ ~EventEnded)
       /\ \A i \in TaskIds :
            (/\ tasks[i].pc # "idle"
             /\ tasks[i].kind = "message"
             /\ tasks'[i].pc = "idle")
                => last'.out # <<>>]_vars


(***************************************************************************)
(* The acting user of a menu button.                                       *)
(***************************************************************************)
\* the user the resolution is to give: the chat's entry of active_chats;
\* else the pending registration of the chat; else the only user record when
\* there is exactly one; else none
ExpectedUser(c, sp, su) ==
    IF active_chats[c] # 0 THEN active_chats[c]
    ELSE IF sp # 0 THEN sp
    ELSE IF Cardinality({u \in Users : users_db[u] # 0}) = 1 THEN su
    ELSE 0

\* C20: the acting user of a menu button is the chat's entry of active_chats;
\* else the user whose pending registration has the chat's id, and
\* active_chats is repaired; else the only user record, if exactly one
\* exists; with no record or with two or more the resolution fails with the
\* user-not-found reply, and active_chats and the records are unchanged.
ResolutionOrder ==
    [][\A c \in Chats, p \in ResolvePayloads, sp \in Users \cup {0}, su \in Users \cup {0} :
          (IsMenuPayload(p) /\ p # PayloadRestart /\ Callback(c, p, sp, su)) =>
              IF ExpectedUser(c, sp, su) = 0
              THEN /\ tasks' = tasks
                   /\ last'.out = <<"menu_user_not_found", "cb_not_handled">>
                   /\ active_chats' = active_chats
                   /\ users_db' = users_db
                   /\ urecs' = urecs
                   /\ pending_registrations' = pending_registrations
                   /\ regs' = regs
              ELSE active_chats'[c] = ExpectedUser(c, sp, su)]_vars


(***************************************************************************)
(* The user id a keyboard writes into its payloads.                        *)
(***************************************************************************)
\* the user id the digits stand for (0 when they are no id of the model)
UserOfChars(s) == IF \E u \in Users : Chars(u) = s
                  THEN CHOOSE u \in Users : Chars(u) = s
                  ELSE 0

\* the user id embedded in a payload of the wizard: the second field of a
\* selection payload, the third field of a confirmation payload
EmbeddedId(p) ==
    LET parts == SplitSep(p, "_", -1, <<>>)
    IN  IF StartsWith(p, PfxConfirm)
        THEN IF Len(parts) >= 3 THEN UserOfChars(parts[3]) ELSE 0
        ELSE IF Len(parts) >= 2 THEN UserOfChars(parts[2]) ELSE 0

\* C21: a button whose payload embeds a user id (university_{id}_...,
\* faculty_{id}_..., group_{id}_..., confirm_{yes|no}_{id}) acts on the
\* pending registration of the embedded user, whatever user active_chats
\* gives for the chat: the press changes no registration and no record of
\* any other user.
EmbeddedIdDecides ==
    [][\A c \in Rooms, p \in ResolvePayloads, sp \in Users \cup {0}, su \in Users \cup {0} :
          (/\ ~IsMenuPayload(p)
           /\ EmbeddedId(p) # 0
           /\ Callback(c, p, sp, su))
              => \A u \in Users \ {EmbeddedId(p)} :
                    /\ RegOf(u)' = RegOf(u)
                    /\ RecOf(u)' = RecOf(u)]_vars


(***************************************************************************)
(* Whose data an event touches.                                            *)
(***************************************************************************)
\* the registration and the record of every user other than a are what they
\* were
OthersUntouched(a) ==
    \A b \in Users \ {a} : RegOf(b)' = RegOf(b) /\ RecOf(b)' = RecOf(b)

\* C22: the handling of an event sent by user A (a message, a bot start, a
\* button press) creates, changes and deletes no pending registration and no
\* record of another user B, also when A and B share a chat and when the
\* chat has no entry in active_chats.
EventsTouchOnlySender ==
    [][/\ \A a \in Users, c \in Rooms : BotStarted(a, c) => OthersUntouched(a)
       /\ \A a \in Users, c \in Rooms, raw \in PathTexts :
            MessageCreated(a, c, raw) => OthersUntouched(a)
       /\ \A i \in TaskIds :
            (/\ tasks[i].kind \in {"message", "bot_started"}
             /\ tasks[i].pc # "idle"
             /\ tasks'[i] # tasks[i])
                => OthersUntouched(tasks[i].user)
       /\ \A a \in Users, c \in Chats, p \in ResolvePayloads, sp \in Users \cup {0},
             su \in Users \cup {0} :
            (/\ RegOf(a).step # "free" \/ users_db[a] # 0
             /\ CallbackFrom(a, c, p, sp, su))
                => OthersUntouched(a)]_vars


(***************************************************************************)
(* Payloads that cannot be routed.                                         *)
(***************************************************************************)
\* C23: decoding is total: a payload with an unknown prefix, with a known
\* prefix and fields missing ("university_", "confirm_", ...) or with no
\* characters is answered as not handled, nothing is raised, and no pending
\* registration and no user record is changed.
DecodingIsTotal ==
    [][\A c \in Chats, p \in MalformedPayloads, sp \in Users \cup {0}, su \in Users \cup {0} :
          Callback(c, p, sp, su) =>
              /\ tasks' = tasks
              /\ ~last'.handled
              /\ last'.out # <<>>
              /\ last'.out[Len(last'.out)] = "cb_not_handled"
              /\ "cb_exception" \notin Range(last'.out)
              /\ pending_registrations' = pending_registrations
              /\ regs' = regs
              /\ users_db' = users_db
              /\ urecs' = urecs]_vars

\* C23, reached: a user who is choosing the faculty pressed a button whose
\* payload has a known prefix and no fields; the press was answered as not
\* handled and the registration is at its step
UnroutableDuringWizard ==
    /\ StepOf(1) = "faculty"
    /\ active_chats[1] = 1
    /\ last.act = "callback"
    /\ last.out = <<"cb_not_handled">>
    /\ ~last.handled
    /\ Quiet


(***************************************************************************)
(* The payloads of the selection keyboards, written and read back.         *)
(***************************************************************************)
MaxLabel == 2

\* the labels of at most MaxLabel characters, blanks at any place, without
\* the separator
LabelChars == {"A", "B", " "}

CodecLabels == UNION {[1..n -> LabelChars] : n \in 0..MaxLabel}

\* SpecCodec: a user who has started the bot presses selection buttons whose
\* payloads the keyboards would write for any user id and any label.
NextCodec ==
    \/ Quiet /\ \E u \in Actors, c \in Rooms : BotStarted(u, c)
    \/ Quiet /\ \E c \in Rooms, kind \in SelKinds, id \in Users, label \in CodecLabels,
                    sp \in Users \cup {0}, su \in Users \cup {0} :
          Callback(c, EncodeSelection(PrefixOf(kind), id, label), sp, su)
    \/ \E i \in TaskIds : FetchDone(i, TRUE)

SpecCodec == Init /\ [][NextCodec]_vars

\* the handler of a button press with this payload in this chat, run up to
\* its first suspension or its end
Pressed(chat_id, callback_data) ==
    handle_callback(StateOf(Min(IdleSlots), NewTask("callback", "callback", 0, chat_id, <<>>)),
                    callback_data, chat_id, 0, 0)

\* C24: for every action of university, faculty and group, every user id
\* and every label without the separator "_", the payload the keyboard
\* writes is read back by the dispatcher as the same action and the same
\* label, blanks restored.
PayloadRoundTrip ==
    \A c \in Rooms, kind \in SelKinds, id \in Users, label \in CodecLabels :
        (Quiet /\ active_chats[c] # 0)
            => LET t == Pressed(c, EncodeSelection(PrefixOf(kind), id, label)).t
               IN  t.act = kind /\ t.arg = label

\* C24, reached: the press of a faculty button written for user 2 with a
\* label of blanks and letters was read back letter for letter
BlankLabelReadBack ==
    /\ last.act = "faculty"
    /\ last.arg = <<" ", "B">>
    /\ Quiet




(***************************************************************************)
(* services/cache.py on its own: the calls of the cache class at the       *)
(* instants around the multiples of the ttl.                               *)
(***************************************************************************)
MaxWindows == 2

\* the instants of the clock: each multiple of the ttl and the second before
Instants == {n * ttl_seconds - e : n \in 1..MaxWindows, e \in {0, 1}} \cup {0}

StoreKeys == {KeyUniversities, KeyFaculties(1)}
StoreValues == {Institutions, FacultiesOf(1), <<>>}

\* value = cache.get(key), the answer kept in last (handled: an entry was
\* served)
CacheGetCall(key) ==
    /\ Quiet
    /\ LET g == CacheGet(cache, key, now)
       IN  /\ cache' = g.cache
           /\ last' = [act |-> "get", arg |-> key, out |-> g.value, handled |-> g.hit]
    /\ UNCHANGED <<users_db, urecs, pending_registrations, regs, active_chats, now, tasks>>

\* cache.set(key, value)
CacheSetCall(key, value) ==
    /\ Quiet
    /\ cache' = CacheSet(cache, key, value, now)
    /\ last' = [act |-> "set", arg |-> key, out |-> value, handled |-> TRUE]
    /\ UNCHANGED <<users_db, urecs, pending_registrations, regs, active_chats, now, tasks>>

\* cache.clear()
CacheClearCall ==
    /\ Quiet
    /\ cache' = CacheClear(cache)
    /\ last' = [act |-> "clear", arg |-> <<>>, out |-> <<>>, handled |-> TRUE]
    /\ UNCHANGED <<users_db, urecs, pending_registrations, regs, active_chats, now, tasks>>

\* datetime.now() has advanced to instant t
Tick(t) ==
    /\ t > now
    /\ now' = t
    /\ UNCHANGED <<users_db, urecs, pending_registrations, regs, active_chats, cache,
                   tasks, last>>

NextCache ==
    \/ \E k \in StoreKeys : CacheGetCall(k)
    \/ \E k \in StoreKeys, v \in StoreValues : CacheSetCall(k, v)
    \/ CacheClearCall
    \/ \E t \in Instants : Tick(t)

SpecCache == Init /\ [][NextCache]_vars

\* seconds since the entry of key k was written
Age(k) == now - cache[k].ts

\* C25: after set(k, v), every get(k) made before the ttl has elapsed
\* returns v; the first get(k) after the ttl has elapsed returns absent, and
\* so does every later get(k) until k is set again.
ServedUntilTtlThenAbsent ==
    [][\A k \in StoreKeys :
          /\ \A v \in StoreValues :
                CacheSetCall(k, v) => cache'[k].value = v /\ cache'[k].ts = now
          /\ CacheGetCall(k) =>
                IF cache[k] # NoEntry /\ Age(k) < ttl_seconds
                THEN last'.handled /\ last'.out = cache[k].value
                ELSE ~last'.handled /\ cache'[k] = NoEntry
          /\ (cache[k] = NoEntry /\ cache'[k] # NoEntry)
                => \E v \in StoreValues : CacheSetCall(k, v)]_vars

\* C25, reached: the list written at instant 0 has just been served one
\* second before the ttl
ServedJustBeforeTtl ==
    /\ now = ttl_seconds - 1
    /\ cache[KeyUniversities] = [value |-> Institutions, ts |-> 0]
    /\ last = [act |-> "get", arg |-> KeyUniversities, out |-> Institutions,
               handled |-> TRUE]

\* C26: get treats an entry as expired exactly when now - insertion time
\* >= ttl (an entry aged exactly the ttl is absent), and a get that serves
\* the entry never refreshes it.
ExpiredExactlyAtTtl ==
    [][\A k \in StoreKeys :
          (CacheGetCall(k) /\ cache[k] # NoEntry)
              => /\ ~last'.handled <=> Age(k) >= ttl_seconds
                 /\ last'.handled => cache'[k] = cache[k]]_vars

\* C26, reached: the entry written at instant 0 has been read and served,
\* kept its timestamp and is now aged exactly the ttl
ReadEntryAgedTtl ==
    /\ now = ttl_seconds
    /\ cache[KeyUniversities] = [value |-> Institutions, ts |-> 0]
    /\ last = [act |-> "get", arg |-> KeyUniversities, out |-> Institutions,
               handled |-> TRUE]

\* C27: set on a key that already holds an entry, expired or not, replaces
\* the value and resets the insertion timestamp to the time of the set, so
\* the new value is served for a full ttl counted from the latest set.
SetReplacesAndRestarts ==
    [][\A k \in StoreKeys, v \in StoreValues :
          (CacheSetCall(k, v) /\ cache[k] # NoEntry)
              => /\ cache'[k] = [value |-> v, ts |-> now]
                 /\ \A t \in Instants :
                       t >= now =>
                          LET g == CacheGet(cache', k, t)
                          IN  IF t - now < ttl_seconds
                              THEN g.hit /\ g.value = v
                              ELSE ~g.hit]_vars

\* C27, reached: an expired entry was written over and the new value is held
\* with the time of the second set
ExpiredEntryRewritten ==
    /\ now = ttl_seconds
    /\ cache[KeyUniversities] = [value |-> <<>>, ts |-> ttl_seconds]
    /\ last = [act |-> "set", arg |-> KeyUniversities, out |-> <<>>, handled |-> TRUE]
    /\ cache[KeyFaculties(1)] = [value |-> FacultiesOf(1), ts |-> 0]

\* C28: eviction is lazy and per key: an expired entry stays in the store
\* until a get on that same key or clear removes it; get(k) and set(k, v)
\* never add, remove or change the entry of another key, and a get of a
\* non-expired key changes nothing.
EvictionLazyPerKey ==
    [][\A k \in StoreKeys :
          /\ (cache[k] # NoEntry /\ cache'[k] = NoEntry)
                => \/ CacheClearCall
                   \/ CacheGetCall(k) /\ Age(k) >= ttl_seconds
          /\ (CacheGetCall(k) \/ \E v \in StoreValues : CacheSetCall(k, v))
                => \A o \in CacheKeys \ {k} : cache'[o] = cache[o]
          /\ (CacheGetCall(k) /\ cache[k] # NoEntry /\ Age(k) < ttl_seconds)
                => cache' = cache]_vars

\* C28, reached: a get of one key right after the ttl found it absent while
\* the other key's entry of the same age is still in the store
ExpiredNeighbourKept ==
    /\ now = ttl_seconds
    /\ last = [act |-> "get", arg |-> KeyUniversities, out |-> <<>>, handled |-> FALSE]
    /\ cache[KeyUniversities] = NoEntry
    /\ cache[KeyFaculties(1)] = [value |-> FacultiesOf(1), ts |-> 0]


\* the handlers suspended on the upstream fetch of key k
Fetching(k) == {i \in TaskIds : tasks[i].pc = "fetch" /\ tasks[i].key = k}

\* C29: for each reference-data key a cache miss triggers exactly one
\* upstream fetch: within one ttl window at most one upstream fetch of the
\* key is under way or done, also when lookups overlap while the first one
\* is suspended on the fetch.
OneFetchPerKey ==
    \A k \in CacheKeys : Cardinality(Fetching(k)) <= 1


(***************************************************************************)
(* The reference lists over time: the wizard's lookups with an upstream    *)
(* that may fail, at the instants around the multiples of the ttl.         *)
(***************************************************************************)
ExpiryPayloads ==
    UniversityPayloads({Institutions[1].title}) \cup FacultyPayloads(Titles(FacultiesOf(1)))

NextExpiry ==
    \/ Quiet /\ \E u \in Actors, c \in Rooms : BotStarted(u, c)
    \/ Quiet /\ \E u \in Actors, c \in Rooms, raw \in PathTexts : MessageCreated(u, c, raw)
    \/ Quiet /\ \E c \in Rooms, p \in ExpiryPayloads, sp \in Users \cup {0},
                    su \in Users \cup {0} : Callback(c, p, sp, su)
    \/ \E i \in TaskIds, up_ok \in BOOLEAN : FetchDone(i, up_ok)
    \/ \E t \in Instants : Tick(t)

SpecExpiry == Init /\ [][NextExpiry]_vars

\* the press of the university button by a user who has a registration: the
\* handler's first act is the lookup of the list of universities
UniversityPressed ==
    /\ Quiet
    /\ active_chats[1] = 1
    /\ pending_registrations[1] # 0
    /\ Callback(1, EncodeSelection(PfxUniversity, 1, Institutions[1].title), 0, 0)

\* C30: an empty list from upstream, a failed request included, is cached:
\* every lookup of the key during the following ttl answers empty / not
\* found without an upstream call, and the first lookup after the ttl has
\* elapsed fetches upstream again.
EmptyResultCached ==
    [][/\ \A i \in TaskIds, up_ok \in BOOLEAN :
             (FetchDone(i, up_ok) /\ Upstream(tasks[i].key, up_ok) = <<>>)
                 => cache'[tasks[i].key] = [value |-> <<>>, ts |-> now]
       /\ \A i \in TaskIds, k \in CacheKeys :
             (tasks[i].pc # "fetch" /\ tasks'[i].pc = "fetch" /\ tasks'[i].key = k
              /\ cache[k] # NoEntry /\ cache[k].value = <<>>)
                 => Age(k) >= ttl_seconds
       /\ (UniversityPressed /\ cache[KeyUniversities] # NoEntry
           /\ cache[KeyUniversities].value = <<>>)
             => IF Age(KeyUniversities) < ttl_seconds
                THEN /\ Quiet'
                     /\ last'.out = <<"uni_not_found", "cb_not_handled">>
                     /\ cache' = cache
                ELSE /\ Fetching(KeyUniversities)' # {}
                     /\ cache'[KeyUniversities] = NoEntry]_vars

\* C30, reached: the empty list stored at instant 0 answered a university
\* press one second before the ttl
EmptyServedFromCache ==
    /\ now = ttl_seconds - 1
    /\ cache[KeyUniversities] = [value |-> <<>>, ts |-> 0]
    /\ last.act = "university"
    /\ last.out = <<"uni_not_found", "cb_not_handled">>
    /\ Quiet


(***************************************************************************)
(* Resolution by name or abbreviation, over any list of universities the   *)
(* upstream may serve.                                                     *)
(***************************************************************************)
MaxEntries == 2

\* titles and abbreviations that differ by case only
CaseNames == {<<"A">>, <<"a">>}

\* the lists of at most MaxEntries entries; the entries take the ids of the
\* catalog in turn
IdAt(n) == ((n - 1) % Cardinality(InstIds)) + 1

Collections ==
    UNION {{[n \in 1..len |-> Entry(IdAt(n), f[n][1], f[n][2])] :
               f \in [1..len -> CaseNames \X CaseNames]} : len \in 0..MaxEntries}

NamePayloads ==
    UniversityPayloads(CaseNames)
    \cup FacultyPayloads(UNION {Titles(FacultiesOf(i)) : i \in InstIds})
    \cup GroupPayloads(UNION {Titles(GroupsOf(i, f)) : i \in InstIds, f \in FacIds})

\* SpecNames: the wizard's selections one at a time; the upstream answers the
\* request for the universities with any list, the other requests from the
\* catalog.
NextNames ==
    \/ Quiet /\ \E u \in Actors, c \in Rooms : BotStarted(u, c)
    \/ Quiet /\ \E c \in Rooms, p \in NamePayloads, sp \in Users \cup {0},
                    su \in Users \cup {0} : Callback(c, p, sp, su)
    \/ \E i \in TaskIds, lst \in Collections :
          tasks[i].key = KeyUniversities /\ FetchAnswered(i, lst)
    \/ \E i \in TaskIds : tasks[i].key # KeyUniversities /\ FetchDone(i, TRUE)

SpecNames == Init /\ [][NextNames]_vars

\* the place of the first entry of lst, from place n on, whose title or
\* abbreviation is name; 0 when there is none
RECURSIVE FirstFrom(_, _, _)
FirstFrom(lst, name, n) ==
    IF n > Len(lst) THEN 0
    ELSE IF lst[n].title = name THEN n
    ELSE IF lst[n].abbreviation = name THEN n
    ELSE FirstFrom(lst, name, n + 1)

NameLists == Collections \cup RefLists
NameLabels(kind) == IF kind = "university" THEN CaseNames ELSE LabelsOf(kind)

\* This step resolves the label of a selection of user 1 in the list lst,
\* whatever the upstream answered.
ResolvingIn(kind, label, lst) ==
    \/ /\ pending_registrations[1] # 0
       /\ ParentsPresent(kind, RegOf(1))
       /\ CacheFresh(cache, KeyOf(kind, RegOf(1)), now)
       /\ lst = cache[KeyOf(kind, RegOf(1))].value
       /\ \E c \in Rooms, sp \in Users \cup {0}, su \in Users \cup {0} :
             Callback(c, EncodeSelection(PrefixOf(kind), 1, label), sp, su)
    \/ \E i \in TaskIds :
          /\ tasks[i].pc = "fetch"
          /\ tasks[i].cont = ContOf(kind)
          /\ tasks[i].arg = label
          /\ pending_registrations[1] # 0
          /\ FetchAnswered(i, lst)

\* C31: resolution by name or abbreviation returns the first entry, in the
\* order of the collection, whose title or whose abbreviation equals the
\* text exactly, case included, and "not found" exactly when no entry
\* matches; faculties are looked for only in the list of the given
\* institution and groups only in the list of the given institution and
\* faculty.
FirstExactMatch ==
    [][/\ \A kind \in SelKinds :
          \A label \in NameLabels(kind), lst \in NameLists :
             ResolvingIn(kind, label, lst)
                => IF FirstFrom(lst, label, 1) = 0
                   THEN /\ RegOf(1)' = RegOf(1)
                        /\ ~last'.handled
                        /\ last'.act = kind
                   ELSE /\ RegOf(1)'[FieldOf(kind)] = label
                        /\ RegOf(1)'[IdFieldOf(kind)] = lst[FirstFrom(lst, label, 1)].id
       /\ \A i \in TaskIds, kind \in {"faculty", "group"} :
             (tasks[i].pc # "fetch" /\ tasks'[i].pc = "fetch"
              /\ tasks'[i].cont = ContOf(kind))
                => tasks'[i].key = KeyOf(kind, RegOf(1)')]_vars

\* C31, reached: "a" was chosen from a list whose first entry has it as
\* abbreviation and whose second entry has it as title, and the first
\* entry's id was taken
FirstOfTwoMatchesTaken ==
    /\ cache[KeyUniversities].value
          = <<Entry(1, <<"A">>, <<"a">>), Entry(2, <<"a">>, <<"A">>)>>
    /\ pending_registrations[1] # 0
    /\ RegOf(1).step = "faculty"
    /\ RegOf(1).university = <<"a">>
    /\ RegOf(1).institution_id = 1
    /\ Quiet


(***************************************************************************)
(* Where pending registrations come from and where they go.                *)
(***************************************************************************)
Unknown(u) == users_db[u] = 0 /\ pending_registrations[u] = 0

\* after the step user u has a registration at step full_name of chat c
StartedIn(u, c) ==
    /\ pending_registrations'[u] # 0
    /\ RegOf(u)'.step = "full_name"
    /\ RegOf(u)'.chat_id = c

\* bot-started events and messages of a user without record and registration
\* create the registration
EventsStartRegistration ==
    [][/\ \A u \in Users, c \in Rooms : (Unknown(u) /\ BotStarted(u, c)) => StartedIn(u, c)
       /\ \A u \in Users, c \in Rooms, raw \in PathTexts :
             (Unknown(u) /\ MessageCreated(u, c, raw)) => StartedIn(u, c)]_vars

\* a registration disappears only in the step that commits it
RemovedOnlyByCommit ==
    [][\A u \in Users :
          (pending_registrations[u] # 0 /\ pending_registrations'[u] = 0)
             => users_db[u] = 0 /\ users_db'[u] # 0]_vars

\* C32: whenever a user who has neither a record nor a pending registration
\* sends an event (bot started, text message, button press), a pending
\* registration of the user is created at step full_name with the chat of
\* the event; a pending registration is removed only by a commit that
\* succeeds or by a restart.
AnyEventStartsRegistration ==
    [][/\ \A u \in Users, c \in Rooms : (Unknown(u) /\ BotStarted(u, c)) => StartedIn(u, c)
       /\ \A u \in Users, c \in Rooms, raw \in PathTexts :
             (Unknown(u) /\ MessageCreated(u, c, raw)) => StartedIn(u, c)
       /\ \A u \in Users, c \in Chats, p \in ResolvePayloads, sp \in Users \cup {0},
             su \in Users \cup {0} :
             (Unknown(u) /\ CallbackFrom(u, c, p, sp, su)) => StartedIn(u, c)
       /\ \A u \in Users :
             (pending_registrations[u] # 0 /\ pending_registrations'[u] = 0)
                => users_db[u] = 0 /\ users_db'[u] # 0]_vars


(***************************************************************************)
(* The profile of a registered user and the ways its requests can end.     *)
(***************************************************************************)
ProfilePayloads ==
    (PathPayloads \ {PayloadRestart}) \cup {PayloadMenuProfile, PayloadProfileRefresh}

\* SpecProfile: one handler at a time; the user registers along the path of
\* the wizard and asks for the profile; the student's data request ends in
\* any of the ways a request can end.
NextProfile ==
    \/ Quiet /\ \E u \in Actors, c \in Rooms : BotStarted(u, c)
    \/ Quiet /\ \E u \in Actors, c \in Rooms, raw \in PathTexts : MessageCreated(u, c, raw)
    \/ Quiet /\ \E c \in Rooms, p \in ProfilePayloads, sp \in Users \cup {0},
                    su \in Users \cup {0} : Callback(c, p, sp, su)
    \/ \E i \in TaskIds : FetchDone(i, TRUE)
    \/ \E i \in TaskIds, fail \in {"none", "api"} : RegisterDone(i, fail, AllLists)
    \/ \E i \in TaskIds, u \in Actors \cup {0} :
          LookupSidDone(i, IF u = 0 THEN 0 ELSE SidOf(u))
    \/ \E i \in TaskIds, a \in {"none", "yes", "no"} : StatusDone(i, a)
    \/ \E i \in TaskIds, o \in RequestOutcomes : StudentDataDone(i, o)

SpecProfile == Init /\ [][NextProfile]_vars

\* C33: a user record is deleted only as part of the recovery from "the
\* external system answered that the student does not exist"; a request that
\* fails for another reason (timeout, connection error, server error) while
\* the profile is served leaves the record present and unmodified.
RecordSurvivesFailedRequest ==
    [][/\ \A u \in Users :
             (users_db[u] # 0 /\ users_db'[u] = 0)
                => \E i \in TaskIds : StudentDataDone(i, "not_found")
       /\ \A i \in TaskIds, o \in RequestOutcomes \ {"ok", "not_found"} :
             StudentDataDone(i, o) => users_db' = users_db /\ urecs' = urecs]_vars


(***************************************************************************)
(* Chat mode: entering it, the messages sent in it, leaving it.            *)
(***************************************************************************)
\* the words message_handler does not forward to the AI service
EscapeTexts == {CmdSlashMenu, CmdMenu, CmdBack}

ChatTexts == PathTexts \cup EscapeTexts \cup {<<>>}
ChatPayloads ==
    (PathPayloads \ {PayloadRestart}) \cup {PayloadMenuChatbot, PayloadMenuBack}

\* SpecChat: one handler at a time; the user registers along the path of the
\* wizard, opens the chat by button, writes and leaves; every remote query
\* may fail or change its answer.
NextChat ==
    \/ Quiet /\ \E u \in Actors, c \in Rooms : BotStarted(u, c)
    \/ Quiet /\ \E u \in Actors, c \in Rooms, raw \in ChatTexts : MessageCreated(u, c, raw)
    \/ Quiet /\ \E c \in Rooms, p \in ChatPayloads, sp \in Users \cup {0},
                    su \in Users \cup {0} : Callback(c, p, sp, su)
    \/ \E i \in TaskIds : FetchDone(i, TRUE)
    \/ \E i \in TaskIds, fail \in {"none", "api"} : RegisterDone(i, fail, AllLists)
    \/ \E i \in TaskIds, u \in Actors \cup {0} :
          LookupSidDone(i, IF u = 0 THEN 0 ELSE SidOf(u))
    \/ \E i \in TaskIds, a \in {"none", "yes", "no"} : StatusDone(i, a)
    \/ \E i \in TaskIds, a \in {"none", "yes", "no"} : AccessDone(i, a)
    \/ \E i \in TaskIds, ok \in BOOLEAN : ContentDone(i, ok)

SpecChat == Init /\ [][NextChat]_vars

InChatMode(u) == users_db[u] # 0 /\ RecOf(u).in_chat_mode

\* C34: when a user whose in_chat_mode is true sends "/menu" or one of the
\* other escape words, the user leaves chat mode: after the event
\* in_chat_mode is false, so that the next ordinary text is not forwarded to
\* the AI service.
EscapeWordLeavesChatMode ==
    [][\A c \in Rooms, raw \in EscapeTexts :
          (InChatMode(1) /\ MessageCreated(1, c, raw)) => ~InChatMode(1)']_vars


(***************************************************************************)
(* A selection that waits for its list while the registration is restarted.*)
(***************************************************************************)
SelectConts == {"uni_select", "fac_select", "grp_select"}

\* the handlers of a selection that wait for the reference list
WaitingSelections == {i \in TaskIds : tasks[i].pc = "fetch" /\ tasks[i].cont \in SelectConts}

StalePayloads ==
    UniversityPayloads({Institutions[1].title})
    \cup FacultyPayloads(Titles(FacultiesOf(1)))
    \cup GroupPayloads(Titles(GroupsOf(1, 1)))

\* SpecStale: the user walks the path of the wizard one handler at a time,
\* the cached lists may have expired before a press, and the restart button
\* is pressed while a selection waits for its list.
NextStale ==
    \/ Quiet /\ \E u \in Actors, c \in Rooms : BotStarted(u, c)
    \/ Quiet /\ \E u \in Actors, c \in Rooms, raw \in PathTexts : MessageCreated(u, c, raw)
    \/ Quiet /\ \E c \in Rooms, p \in StalePayloads, sp \in Users \cup {0},
                    su \in Users \cup {0} : Callback(c, p, sp, su)
    \/ /\ WaitingSelections # {}
       /\ \E c \in Rooms, sp \in Users \cup {0}, su \in Users \cup {0} :
             Callback(c, PayloadRestart, sp, su)
    \/ \E i \in TaskIds : FetchDone(i, TRUE)
    \/ Quiet /\ \E t \in Instants : Tick(t)

SpecStale == Init /\ [][NextStale]_vars

\* a registration as start_registration leaves it
JustStarted(reg) == reg.step = "full_name" /\ DOMAIN reg = {"step", "chat_id"}

\* C35: a selection of a university, a faculty or a group that started
\* before a restart of the same user's registration and resumes after it is
\* not applied to the new registration, which stays at step full_name with
\* no collected field.
StaleSelectionNotApplied ==
    [][\A i \in WaitingSelections :
          (/\ last.act = "restart"
           /\ tasks[i].user = 1
           /\ JustStarted(RegOf(1))
           /\ FetchDone(i, TRUE))
              => JustStarted(RegOf(1)')]_vars

\* the same for the selections of a faculty and of a group only
StaleChildSelectionNotApplied ==
    [][\A i \in WaitingSelections :
          (/\ last.act = "restart"
           /\ tasks[i].cont # "uni_select"
           /\ tasks[i].user = 1
           /\ JustStarted(RegOf(1))
           /\ FetchDone(i, TRUE))
              => JustStarted(RegOf(1)')]_vars

\* a faculty selection resumed after a restart and was answered
ChildResumedAfterRestart ==
    /\ Quiet
    /\ last.act = "faculty"
    /\ "fac_selected" \in Range(last.out)
    /\ JustStarted(RegOf(1))


(***************************************************************************)
(* The two approval fields of a record.                                    *)
(***************************************************************************)
\* C36: in every reachable state, overlapping access checks and status
\* resyncs with a changing remote answer included, the two approval fields
\* of a user record agree: application_approved is true if and only if
\* status is approved.
ApprovalFieldsAgree ==
    \A u \in Users :
        users_db[u] # 0 =>
            (RecOf(u).application_approved <=> RecOf(u).status = "approved")


(***************************************************************************)
(* The fields a pending registration holds at each step.                   *)
(***************************************************************************)
\* C37: in every reachable state a pending registration holds every field
\* collected by the steps before its own: at university or later full_name,
\* at faculty or later university and institution_id, at group or later
\* faculty_id, at confirmation group and group_id.
EarlierFieldsCollected ==
    \A u \in Users :
        pending_registrations[u] # 0 =>
            LET reg == RegOf(u)
                rank == StepRank(reg.step)
            IN  /\ rank >= StepRank("university") => Has(reg, "full_name")
                /\ rank >= StepRank("faculty")
                      => Has(reg, "university") /\ Has(reg, "institution_id")
                /\ rank >= StepRank("group") => Has(reg, "faculty_id")
                /\ rank >= StepRank("confirmation")
                      => Has(reg, "group") /\ Has(reg, "group_id")


(***************************************************************************)
(* The combination a committed record holds.                               *)
(***************************************************************************)
\* a university, faculty and group that resolve in wizard order: the faculty
\* under the institution of the university, the group under both
InWizardOrder(university, faculty, group) ==
    LET institution == Resolve(Institutions, university)
        faculty_data == Resolve(FacultiesOf(institution.id), faculty)
        group_data == Resolve(GroupsOf(institution.id, faculty_data.id), group)
    IN  institution.found /\ faculty_data.found /\ group_data.found

\* C38: every user record created by a commit holds a combination that was
\* validated in wizard order: its faculty resolves under the institution of
\* its university and its group under that institution and faculty, whatever
\* buttons (stale university, faculty or confirm buttons included) were
\* pressed before the commit.
CommittedCombinationValidated ==
    \A u \in Users :
        users_db[u] # 0 =>
            InWizardOrder(RecOf(u).university, RecOf(u).faculty, RecOf(u).group)


(***************************************************************************)
(* A user record without a system_id.                                      *)
(***************************************************************************)
\* user u has a record and the record has no system_id
Unlinked(u) == users_db[u] # 0 /\ RecOf(u).system_id = 0

\* the step is the commit of a registration of user u
Commits(u) ==
    \E i \in TaskIds :
        /\ tasks[i].pc = "lookup_sid" /\ tasks[i].user = u
        /\ tasks'[i].pc # "lookup_sid"

\* the record of a user gets a system_id only by the commit of a registration
SystemIdOnlyByCommit ==
    [][\A u \in Users :
          Unlinked(u) /\ users_db'[u] # 0 /\ RecOf(u)'.system_id # 0 => Commits(u)]_vars


\* SpecLink: the wizard of one path, the confirmation pressed while an
\* earlier confirmation is still committing, the schedule button pressed
\* while a commit is under way; get_student_by_max_id of the commit finds no
\* student, so every record is committed without a system_id
LinkPayloads == PathPayloads \ (ConfirmPayloads \cup {PayloadRestart})

NextLink ==
    \/ Quiet /\ \E u \in Actors, c \in Rooms : BotStarted(u, c)
    \/ Quiet /\ \E u \in Actors, c \in Rooms, raw \in PathTexts : MessageCreated(u, c, raw)
    \/ Quiet /\ \E c \in Rooms, p \in LinkPayloads, sp \in Users \cup {0},
                    su \in Users \cup {0} : Callback(c, p, sp, su)
    \/ \E c \in Rooms, sp \in Users \cup {0}, su \in Users \cup {0} :
          Callback(c, EncodeConfirm(WordYes, 1), sp, su)
    \/ \E c \in Rooms, sp \in Users \cup {0}, su \in Users \cup {0} :
          Callback(c, PayloadMenuSchedule, sp, su)
    \/ \E i \in TaskIds : FetchDone(i, TRUE)
    \/ \E i \in TaskIds : RegisterDone(i, "none", AllLists)
    \/ \E i \in TaskIds : LookupSidDone(i, 0)
    \/ \E i \in TaskIds, a \in {"none", "yes", "no"} : AccessDone(i, a)

SpecLink == Init /\ [][NextLink]_vars

\* C39: a user whose record has no system_id is denied without a remote
\* query and without a change of the record, and is never granted a gated
\* action until the record is replaced by a new registration: where every
\* commit leaves the record without a system_id, no record is ever approved
\* and the schedule menu is never sent.
UnlinkedNeverGranted ==
    /\ "schedule_menu" \notin Range(last.out)
    /\ \A u \in Users : users_db[u] # 0 => ~RecOf(u).application_approved


\* no approval-status query is in flight for a record without a system_id
UnlinkedNeverQueried ==
    \A i \in TaskIds :
        tasks[i].pc \in {"access", "status"} => urecs[tasks[i].usr].system_id # 0


(***************************************************************************)
(* Chat mode and the AI service.                                           *)
(***************************************************************************)
\* the user's record is approved: what a true access check leaves behind
ApprovedNow(u) ==
    users_db'[u] # 0 /\ RecOf(u)'.application_approved /\ RecOf(u)'.status = "approved"

\* the handler i of a text of a user in chat mode leaves its access check
AiChecked(i) ==
    tasks[i].act = "ai" /\ tasks[i].pc = "access" /\ tasks'[i].pc # "access"

\* handler i waits for the answer of the AI service after the step
Forwarded(i) == tasks'[i].act = "ai" /\ tasks'[i].pc = "content"

\* C40: in_chat_mode becomes true only in start_chatbot after its access
\* check returned true; a text is forwarded to the AI service only if the
\* access check made for it returned true; when that check fails for a user
\* in chat mode, in_chat_mode is set to false, the denial is sent and nothing
\* is forwarded.
ChatModeGated ==
    [][/\ \A u \in Users :
             ~InChatMode(u) /\ InChatMode(u)' =>
                 /\ last'.act = "menu_chatbot"
                 /\ "chat_welcome" \in Range(last'.out)
                 /\ ApprovedNow(u)
       /\ \A i \in TaskIds :
             /\ tasks[i].pc # "content" /\ Forwarded(i) =>
                   \A u \in Users :
                       tasks'[i].user = u => ApprovedNow(u) /\ InChatMode(u)'
             /\ \A u \in Users :
                   AiChecked(i) /\ tasks[i].user = u /\ ~ApprovedNow(u) =>
                       /\ ~Forwarded(i)
                       /\ ~InChatMode(u)'
                       /\ last'.act = "ai"
                       /\ last'.out = <<"access_restricted">>]_vars

\* a user in chat mode sent a text, the access check made for it failed, and
\* the user is out of chat mode with the denial as the only reply
ChatModeUserDenied ==
    /\ last.act = "ai" /\ last.out = <<"access_restricted">>
    /\ users_db[1] # 0 /\ ~RecOf(1).in_chat_mode /\ ~RecOf(1).application_approved

====
